---- MODULE Spec2Model ----
(***************************************************************************)
(* Model of the travel-planner backend: the periodic trip monitor          *)
(* (app/tasks/monitor_tasks.py, app/services/monitor.py) and the booking   *)
(* modification service (app/services/modification.py).                    *)
(*                                                                         *)
(* JSON values are tagged records: Missing (key absent), Null, Num(n),     *)
(* Str(chars), IsoDate(day), IsoDt(minute).  A dict is a record that has   *)
(* every key of its kind, absent keys holding Missing.  Money is kept in   *)
(* cents.  Dates are day numbers and datetimes minute numbers counted from *)
(* 2026-06-01T00:00.                                                       *)
(***************************************************************************)
EXTENDS Integers, Sequences, FiniteSets, TLC

\* ------------------------------------------------------------------------
\* Bounds of the model
\* ------------------------------------------------------------------------
MaxCycles == 2

MaxBookings == 2

\* modification calls applied one after the other to a trip
MaxRequests == 2
MaxPhrases == 2
MaxWorkers == 2

\* ------------------------------------------------------------------------
\* JSON values and Python primitives
\* ------------------------------------------------------------------------
Missing == [tag |-> "missing"]

Null == [tag |-> "null"]

Num(n) == [tag |-> "num", n |-> n]

Str(chars) == [tag |-> "str", chars |-> chars]

\* a non-empty string whose characters play no part (a name, a code, a
\* label): it spells no number, no date and no datetime
Name(w) == [tag |-> "name", w |-> w]

\* s[:n] of a name: the name itself when it has no more than n characters,
\* a non-empty string in any case
NamePrefix(w, n) == [tag |-> "name_prefix", w |-> w, n |-> n]

\* a string that spells a date, "2026-06-01" being day 0
IsoDate(day) == [tag |-> "isodate", day |-> day]

\* a string that spells a datetime, "2026-06-01T00:00:00" being minute 0
IsoDt(minute) == [tag |-> "isodt", minute |-> minute]

\* the outcome of a call: a value returned or an exception raised
Returned(v) == [returned |-> v]

Raised(kind) == [raised |-> kind]

IsRaised(x) == "raised" \in DOMAIN x

IsDict(x) == "tag" \notin DOMAIN x /\ "raised" \notin DOMAIN x

\* dict.get(key, default): the default only replaces an absent key, never a null
Get(d, key, default) == IF d[key] = Missing THEN default ELSE d[key]

\* Python truthiness of a JSON value
Truthy(v) ==
    IF IsDict(v) THEN \E k \in DOMAIN v : v[k] # Missing
    ELSE CASE v.tag = "null" -> FALSE
           [] v.tag = "missing" -> FALSE
           [] v.tag = "num" -> v.n # 0
           [] v.tag = "str" -> v.chars # <<>>
           [] OTHER -> TRUE

\* x or y
Or(x, y) == IF Truthy(x) THEN x ELSE y

\* isinstance(v, str)
IsString(v) ==
    ~IsDict(v) /\ v.tag \in {"str", "name", "name_prefix", "isodate", "isodt"}

Digit(c) ==
    CASE c = "0" -> 0 [] c = "1" -> 1 [] c = "2" -> 2 [] c = "3" -> 3
      [] c = "4" -> 4 [] c = "5" -> 5 [] c = "6" -> 6 [] c = "7" -> 7
      [] c = "8" -> 8 [] c = "9" -> 9 [] OTHER -> -1

RECURSIVE DigitsValue(_)
DigitsValue(chars) ==
    IF chars = <<>> THEN 0
    ELSE 10 * DigitsValue(SubSeq(chars, 1, Len(chars) - 1)) + Digit(chars[Len(chars)])

\* the text without the blanks float() skips at both ends: the space, tab,
\* line feed, vertical tab, form feed, carriage return, next line (U+0085)
\* and no-break space (U+00A0); the characters are those of Latin-1
RECURSIVE Strip(_)
Strip(chars) ==
    LET Blank(c) == c \in {" ", "\t", "\n", "\r", "\f", "", "", " "}
    IN  IF chars # <<>> /\ Blank(chars[1]) THEN Strip(Tail(chars))
        ELSE IF chars # <<>> /\ Blank(chars[Len(chars)])
        THEN Strip(SubSeq(chars, 1, Len(chars) - 1))
        ELSE chars

\* digits, single underscores allowed between two of them
IsDigitPart(chars) ==
    /\ chars # <<>>
    /\ \A i \in 1..Len(chars) :
          \/ Digit(chars[i]) >= 0
          \/ /\ chars[i] = "_"
             /\ 1 < i /\ i < Len(chars)
             /\ Digit(chars[i - 1]) >= 0 /\ Digit(chars[i + 1]) >= 0

WithoutUnderscores(chars) == SelectSeq(chars, LAMBDA c : c # "_")

\* the position of the first character of chars that is in set, 0 if none
FirstOf(chars, set) ==
    IF \E i \in 1..Len(chars) : chars[i] \in set
    THEN CHOOSE i \in 1..Len(chars) :
             chars[i] \in set /\ \A j \in 1..(i - 1) : chars[j] \notin set
    ELSE 0

\* a decimal literal from its parts: ok tells whether the parts are well
\* formed, the value is (-1 if negative) * digits * 10^scale
LiteralParts(negative, whole, fraction, hasExp, expNegative, expDigits) ==
    [ok |-> /\ whole # <<>> \/ fraction # <<>>
            /\ whole # <<>> => IsDigitPart(whole)
            /\ fraction # <<>> => IsDigitPart(fraction)
            /\ hasExp => IsDigitPart(expDigits),
     negative |-> negative,
     digits |-> WithoutUnderscores(whole) \o WithoutUnderscores(fraction),
     scale |-> (IF ~hasExp THEN 0
                ELSE IF expNegative THEN -DigitsValue(WithoutUnderscores(expDigits))
                ELSE DigitsValue(WithoutUnderscores(expDigits)))
               - Len(WithoutUnderscores(fraction))]

\* the mantissa split at its point (dot, 0 if none)
MantissaParts(negative, mantissa, dot, hasExp, expNegative, expDigits) ==
    LiteralParts(negative,
                 IF dot = 0 THEN mantissa ELSE SubSeq(mantissa, 1, dot - 1),
                 IF dot = 0 THEN <<>> ELSE SubSeq(mantissa, dot + 1, Len(mantissa)),
                 hasExp, expNegative, expDigits)

\* the exponent split into its sign and its digits
ExponentParts(negative, mantissa, hasExp, exponent) ==
    MantissaParts(negative, mantissa, FirstOf(mantissa, {"."}), hasExp,
                  exponent # <<>> /\ exponent[1] = "-",
                  IF exponent # <<>> /\ exponent[1] \in {"+", "-"}
                  THEN Tail(exponent) ELSE exponent)

\* the unsigned text split at its e or E (ePos, 0 if none)
BodyParts(negative, body, ePos) ==
    ExponentParts(negative,
                  IF ePos = 0 THEN body ELSE SubSeq(body, 1, ePos - 1),
                  ePos # 0,
                  IF ePos = 0 THEN <<>> ELSE SubSeq(body, ePos + 1, Len(body)))

SignedParts(negative, body) == BodyParts(negative, body, FirstOf(body, {"e", "E"}))

\* the parts of a decimal literal: [sign] digits [. digits] [e [sign] digits]
StrippedLiteral(chars) ==
    IF chars # <<>> /\ chars[1] \in {"+", "-"}
    THEN SignedParts(chars[1] = "-", Tail(chars))
    ELSE SignedParts(FALSE, chars)

FloatLiteral(text) == StrippedLiteral(Strip(text))

\* inf, infinity or nan, signed or not, in any case of the letters
IsInfOrNan(text) ==
    LET chars == Strip(text)
        body == IF chars # <<>> /\ chars[1] \in {"+", "-"} THEN Tail(chars) ELSE chars
        Spells(word) == /\ Len(body) = Len(word)
                        /\ \A i \in 1..Len(word) : body[i] \in word[i]
    IN  \/ Spells(<<{"i", "I"}, {"n", "N"}, {"f", "F"}>>)
        \/ Spells(<<{"i", "I"}, {"n", "N"}, {"f", "F"}, {"i", "I"}, {"n", "N"},
                    {"i", "I"}, {"t", "T"}, {"y", "Y"}>>)
        \/ Spells(<<{"n", "N"}, {"a", "A"}, {"n", "N"}>>)

AllZero(digits) == \A i \in 1..Len(digits) : digits[i] = "0"

\* digits * 10^shift, signed
CentsOf(negative, digits, shift) ==
    (IF negative THEN -1 ELSE 1) * DigitsValue(digits) * 10 ^ shift

\* the value in cents of a literal whose last -shift digits, when shift is
\* negative, are finer than a cent
LiteralValue(lit, shift, kept, special) ==
    CASE ~lit.ok /\ ~special -> Raised("ValueError")
      [] lit.ok /\ AllZero(lit.digits) -> Num(0)
      [] lit.ok /\ ~AllZero(lit.digits) /\ shift >= 0 ->
           Num(CentsOf(lit.negative, lit.digits, shift))
      [] lit.ok /\ ~AllZero(lit.digits) /\ shift < 0
                /\ AllZero(SubSeq(lit.digits, kept + 1, Len(lit.digits))) ->
           Num(CentsOf(lit.negative, SubSeq(lit.digits, 1, kept), 0))

LiteralCents(lit, shift, special) ==
    LiteralValue(lit, shift,
                 IF Len(lit.digits) + shift < 0 THEN 0 ELSE Len(lit.digits) + shift,
                 special)

\* cents are two digits below the unit
FloatOfLiteral(lit, special) == LiteralCents(lit, lit.scale + 2, special)

\* float(s) of a string, as Num(cents): the value of a decimal literal, a
\* ValueError for any other text.  Amounts are whole cents in this model:
\* the operator is defined for the literals whose value is a whole number of
\* cents, not for inf, nan or a literal with a finer value.
FloatOfString(text) == FloatOfLiteral(FloatLiteral(text), IsInfOrNan(text))

\* float(v), as Num(cents): a number is itself, a string is parsed, a string
\* that is a name or a date is a ValueError, null or a dict a TypeError
Float(v) ==
    IF IsDict(v) THEN Raised("TypeError")
    ELSE CASE v.tag = "num" -> v
           [] v.tag = "str" -> FloatOfString(v.chars)
           [] v.tag \in {"name", "isodate", "isodt"} -> Raised("ValueError")
           [] OTHER -> Raised("TypeError")

\* ord(c) for the characters that occur in the modelled flight identities
Ord(c) ==
    CASE c = "A" -> 65 [] c = "N" -> 78 [] c = "U" -> 85 [] c = "W" -> 87
      [] c = "d" -> 100 [] c = "p" -> 112
      [] Digit(c) >= 0 -> 48 + Digit(c)

RECURSIVE OrdSum(_)
OrdSum(chars) == IF chars = <<>> THEN 0 ELSE Ord(Head(chars)) + OrdSum(Tail(chars))

\* f"{v}" of a string value; an absent key was already replaced by ""
Fmt(v) == CASE v.tag = "str" -> v.chars
            [] v.tag = "name" -> <<v.w>>
            [] v.tag = "null" -> <<"N", "o", "n", "e">>

Abs(n) == IF n < 0 THEN -n ELSE n

\* strftime('%H:%M') of a minute count
HHMM(minute) == <<(minute % 1440) \div 60, minute % 60>>

\* ------------------------------------------------------------------------
\* Python floats: IEEE 754 doubles, computed exactly
\* ------------------------------------------------------------------------
\* A natural number of any size is the sequence of its digits in base 2^14,
\* the lowest first and the highest not zero; a positive double is
\* [m |-> significand, e |-> exponent], its value m * 2^e, m of 53 bits.
Limb == 2 ^ 14

\* the bits of one digit
LimbBits == CHOOSE k \in 1..30 : 2 ^ k = Limb

RECURSIVE Limbs(_)
Limbs(n) == IF n = 0 THEN <<>> ELSE <<n % Limb>> \o Limbs(n \div Limb)

RECURSIVE LimbsValue(_)
LimbsValue(a) == IF a = <<>> THEN 0 ELSE a[1] + Limb * LimbsValue(Tail(a))

RECURSIVE TrimLimbs(_)
TrimLimbs(a) ==
    IF a = <<>> \/ a[Len(a)] # 0 THEN a ELSE TrimLimbs(SubSeq(a, 1, Len(a) - 1))

\* the digits of a sequence of numbers below 2^31, carried into base 2^14
RECURSIVE Carry(_, _)
Carry(columns, carry) ==
    IF columns = <<>> THEN Limbs(carry)
    ELSE LET s == columns[1] + carry
         IN  <<s % Limb>> \o Carry(Tail(columns), s \div Limb)

\* a * b for a of at most four digits
MulLimbs(a, b) ==
    LET Term(i, k) == IF i <= Len(a) /\ k - i + 1 \in 1..Len(b)
                      THEN a[i] * b[k - i + 1] ELSE 0
    IN  TrimLimbs(Carry([k \in 1..(Len(a) + Len(b)) |->
                            Term(1, k) + Term(2, k) + Term(3, k) + Term(4, k)], 0))

\* quotient and remainder of a natural by a divisor below 2^17
RECURSIVE DivLimbs(_, _)
DivLimbs(a, d) ==
    IF a = <<>> THEN [q |-> <<>>, r |-> 0]
    ELSE LET high == DivLimbs(Tail(a), d)
             cur == high.r * Limb + a[1]
         IN  [q |-> <<cur \div d>> \o high.q, r |-> cur % d]

\* a < b
RECURSIVE LessLimbs(_, _)
LessLimbs(a, b) ==
    IF Len(a) # Len(b) THEN Len(a) < Len(b)
    ELSE IF a = <<>> THEN FALSE
    ELSE IF a[Len(a)] # b[Len(b)] THEN a[Len(a)] < b[Len(b)]
    ELSE LessLimbs(SubSeq(a, 1, Len(a) - 1), SubSeq(b, 1, Len(b) - 1))

\* the number of bits of a
BitLength(a) ==
    IF a = <<>> THEN 0
    ELSE LimbBits * (Len(a) - 1)
         + (CHOOSE k \in 1..LimbBits : 2 ^ (k - 1) <= a[Len(a)] /\ a[Len(a)] < 2 ^ k)

\* a * 2^k
ShiftLeft(a, k) ==
    IF a = <<>> THEN a
    ELSE [i \in 1..(k \div LimbBits) |-> 0]
         \o MulLimbs(<<2 ^ (k % LimbBits)>>, a)

\* a \div 2^k, and whether bits were shifted out that are not all zero
ShiftRight(a, k) ==
    LET drop == IF k \div LimbBits < Len(a) THEN k \div LimbBits ELSE Len(a)
        qr == DivLimbs(SubSeq(a, drop + 1, Len(a)), 2 ^ (k % LimbBits))
    IN  [q |-> TrimLimbs(qr.q),
         lost |-> qr.r # 0 \/ \E i \in 1..drop : a[i] # 0]

\* round to nearest, ties to even: the natural a * 2^e, followed by further
\* non-zero bits when sticky, as a double
RoundToDouble(a, e, sticky) ==
    LET s == BitLength(a) - 53
    IN  IF s <= 0 THEN [m |-> ShiftLeft(a, -s), e |-> e + s]
        ELSE LET above == ShiftRight(a, s - 1)
                 m == DivLimbs(above.q, 2).q
                 up == above.q[1] % 2 = 1 /\ (sticky \/ above.lost \/ m[1] % 2 = 1)
                 m1 == IF up THEN TrimLimbs(Carry([m EXCEPT ![1] = m[1] + 1], 0)) ELSE m
             IN  IF BitLength(m1) = 54 THEN [m |-> DivLimbs(m1, 2).q, e |-> e + s + 1]
                 ELSE [m |-> m1, e |-> e + s]

\* the double nearest to n / d, for n > 0 and a divisor below 2^17
DoubleOfRatio(n, d) ==
    LET qr == DivLimbs(ShiftLeft(Limbs(n), 5 * LimbBits), d)
    IN  RoundToDouble(TrimLimbs(qr.q), -5 * LimbBits, qr.r # 0)

\* x * y of two doubles
MulDouble(x, y) == RoundToDouble(MulLimbs(x.m, y.m), x.e + y.e, FALSE)

\* x < y of two positive doubles
LessDouble(x, y) == x.e < y.e \/ (x.e = y.e /\ LessLimbs(x.m, y.m))

\* a double in [0.5, 1) from the two halves of its significand:
\* (high * 2^27 + low) * 2^-53
DoubleBelowOne(high, low) ==
    [m |-> Carry(<<low % Limb, low \div Limb + (high % 2) * (Limb \div 2),
                   (high \div 2) % Limb, high \div (2 * Limb)>>, 0),
     e |-> -53]

\* round(x * 100) of a positive double x, ties to even: round(x, 2) in cents
RoundToCents(x) ==
    LET above == ShiftRight(MulLimbs(<<100>>, x.m), -x.e - 1)
        whole == LimbsValue(above.q) \div 2
    IN  IF LimbsValue(above.q) % 2 = 1 /\ (above.lost \/ whole % 2 = 1)
        THEN whole + 1 ELSE whole

\* ------------------------------------------------------------------------
\* Configuration (app.config.settings as read by the services)
\* ------------------------------------------------------------------------
\* mock mode forced, mock mode by absence of the provider credential, live mode
SettingsSet ==
    { [booking_mock_mode |-> TRUE,  amadeus_client_id |-> <<>>,
       sendgrid_api_key |-> <<>>],
      [booking_mock_mode |-> FALSE, amadeus_client_id |-> <<>>,
       sendgrid_api_key |-> <<>>],
      [booking_mock_mode |-> FALSE, amadeus_client_id |-> <<"k">>,
       sendgrid_api_key |-> <<"s">>] }

\* ------------------------------------------------------------------------
\* Monitor service: mock detection
\* ------------------------------------------------------------------------
\* random.Random(seed): the values the mock functions draw, in call order.
\* random is floor(rng.random() * 10^6); the entries are CPython's Mersenne
\* Twister outputs for the seeds of the modelled flights.
RandomChange(seed) ==
    CASE seed = 451 -> [random |-> 40404, change_type |-> "departure_time",
                        shift_minutes |-> 30, hours |-> 0, gate |-> <<>>]
      [] seed = 405 -> [random |-> 43529, change_type |-> "gate",
                        shift_minutes |-> 60, hours |-> 0, gate |-> <<"D", "4">>]
      [] seed = 547 -> [random |-> 45349, change_type |-> "gate",
                        shift_minutes |-> 15, hours |-> 0, gate |-> <<"C", "2", "2">>]
      [] seed = 420 -> [random |-> 26343, change_type |-> "arrival_time",
                        shift_minutes |-> 15, hours |-> 8, gate |-> <<>>]
      [] seed = 448 -> [random |-> 280375, change_type |-> "none",
                        shift_minutes |-> 0, hours |-> 0, gate |-> <<>>]
      [] seed = 445 -> [random |-> 550821, change_type |-> "none",
                        shift_minutes |-> 0, hours |-> 0, gate |-> <<>>]

\* keep is the double 1 - drop_pct, drop_pct = rng.uniform(0.08, 0.28), by the
\* two halves of its significand
RandomPrice(seed) ==
    CASE seed = 663 -> [random |-> 888592, keep |-> DoubleBelowOne(53492052, 76189596)]
      [] seed = 617 -> [random |-> 693308, keep |-> DoubleBelowOne(55648340, 106395914)]
      [] seed = 759 -> [random |-> 59050, keep |-> DoubleBelowOne(54517103, 90248674)]
      [] seed = 632 -> [random |-> 367168, keep |-> DoubleBelowOne(49032444, 70705864)]
      [] seed = 660 -> [random |-> 16132, keep |-> DoubleBelowOne(53140818, 14014598)]
      [] seed = 657 -> [random |-> 595133, keep |-> DoubleBelowOne(51149740, 114727969)]

\* round(original_price_usd * (1 - drop_pct), 2) in cents, the price given
\* in cents: the product of the two doubles, rounded to the nearest cent
ScaleRound(cents, keep) ==
    IF cents = 0 THEN 0
    ELSE IF cents < 0
    THEN -RoundToCents(MulDouble(DoubleOfRatio(-cents, 100), keep))
    ELSE RoundToCents(MulDouble(DoubleOfRatio(cents, 100), keep))

DefaultDepart == IsoDt(480)

\* sum(ord(c) for c in seed_str), seed_str = prefix + carrier + flight_number
MockSeed(prefix, booking) ==
    OrdSum(prefix \o Fmt(Get(booking, "carrier", Str(<<>>)))
                  \o Fmt(Get(booking, "flight_number", Str(<<>>))))

_mock_flight_changes(booking) ==
    IF ~IsDict(booking) THEN Raised("AttributeError")
    ELSE
    LET carrier == Get(booking, "carrier", Str(<<>>))
        flight_number == Get(booking, "flight_number", Str(<<>>))
        rng == RandomChange(MockSeed(<<>>, booking))
        old_time == Get(booking, "depart_datetime", DefaultDepart)
    IN  IF rng.random >= 80000 THEN Returned(<<>>)
        ELSE IF IsDict(old_time) \/ old_time.tag \in {"null", "num"}
        THEN Raised("TypeError")
        ELSE
        LET dt == CASE old_time.tag = "isodt" -> old_time.minute
                    [] old_time.tag = "isodate" -> 1440 * old_time.day
                    [] OTHER -> DefaultDepart.minute
            new_dt == dt + rng.shift_minutes
            new_arr_dt == new_dt + 60 * rng.hours
        IN  CASE rng.change_type = "departure_time" ->
                  Returned(<< [alert_type |-> "schedule_change",
                      message |-> [kind |-> "departure rescheduled",
                                   carrier |-> Fmt(carrier),
                                   flight_number |-> Fmt(flight_number),
                                   amount |-> Abs(rng.shift_minutes),
                                   direction |-> IF rng.shift_minutes < 0
                                                 THEN "earlier" ELSE "later",
                                   now |-> HHMM(new_dt)],
                      details |-> [field |-> "departure_time",
                                   old_value |-> old_time,
                                   new_value |-> IsoDt(new_dt),
                                   carrier |-> carrier,
                                   flight_number |-> flight_number]] >>)
              [] rng.change_type = "arrival_time" ->
                  Returned(<< [alert_type |-> "schedule_change",
                      message |-> [kind |-> "estimated arrival updated",
                                   carrier |-> Fmt(carrier),
                                   flight_number |-> Fmt(flight_number),
                                   now |-> HHMM(new_arr_dt)],
                      details |-> [field |-> "arrival_time",
                                   old_value |-> Str(<<>>),
                                   new_value |-> IsoDt(new_arr_dt),
                                   carrier |-> carrier,
                                   flight_number |-> flight_number]] >>)
              [] rng.change_type = "gate" ->
                  Returned(<< [alert_type |-> "schedule_change",
                      message |-> [kind |-> "gate changed",
                                   carrier |-> Fmt(carrier),
                                   flight_number |-> Fmt(flight_number),
                                   gate |-> rng.gate],
                      details |-> [field |-> "gate",
                                   old_value |-> Str(<<"T", "B", "D">>),
                                   new_value |-> Str(rng.gate),
                                   carrier |-> carrier,
                                   flight_number |-> flight_number]] >>)

_mock_price_drop(booking, original_price_usd) ==
    IF ~IsDict(booking) THEN Raised("AttributeError")
    ELSE
    LET carrier == Get(booking, "carrier", Str(<<>>))
        flight_number == Get(booking, "flight_number", Str(<<>>))
        rng == RandomPrice(MockSeed(<<"p", "d">>, booking))
        new_price == ScaleRound(original_price_usd, rng.keep)
        savings == original_price_usd - new_price
    IN  IF rng.random >= 120000 THEN Returned(<<>>)
        ELSE Returned(<< [alert_type |-> "price_drop",
                 message |-> [kind |-> "price drop alert",
                              carrier |-> Fmt(carrier),
                              flight_number |-> Fmt(flight_number),
                              new_price |-> new_price,
                              was |-> original_price_usd,
                              save |-> savings],
                 details |-> [carrier |-> carrier,
                              flight_number |-> flight_number,
                              original_price_usd |-> Num(original_price_usd),
                              new_price_usd |-> Num(new_price),
                              savings_usd |-> Num(savings)]] >>)

\* ------------------------------------------------------------------------
\* Monitor service: live detection (Amadeus)
\* ------------------------------------------------------------------------
\* What the provider does during one live call: the token request, the data
\* request, the HTTP status, the shape of the JSON body, and its payload
\* (actual: the departure timing of the first flight point; offers: the
\* grandTotal of each offer, Missing when the offer has no price).
OkEnv(shape, actual, offers) ==
    [token |-> "ok", request |-> "ok", status |-> 200, shape |-> shape,
     actual |-> actual, offers |-> offers]

ProviderEnvs ==
    { [token |-> "fail", request |-> "ok", status |-> 200, shape |-> "data",
       actual |-> IsoDt(21030), offers |-> <<Num(50000)>>],
      [token |-> "ok", request |-> "error", status |-> 200, shape |-> "data",
       actual |-> IsoDt(21030), offers |-> <<Num(50000)>>],
      [token |-> "ok", request |-> "ok", status |-> 500, shape |-> "data",
       actual |-> IsoDt(21030), offers |-> <<Num(50000)>>],
      OkEnv("not_json", Null, <<>>),
      OkEnv("no_data", Null, <<>>),
      OkEnv("empty", Null, <<>>),
      OkEnv("bad_item", Null, <<>>),
      OkEnv("data", Str(<<>>), <<Missing>>),
      OkEnv("data", Num(5), <<Str(<<"a", "b", "c">>)>>),
      OkEnv("data", IsoDt(20790), <<Num(78200), Num(90000)>>),
      OkEnv("data", IsoDt(21030), <<Num(50000), Missing>>),
      OkEnv("data", IsoDt(21030), <<Str(<<"7", "0", "0">>)>>),
      OkEnv("data", IsoDt(20790), <<Num(1012), Num(2000)>>),
      OkEnv("data", Name("TBD"), <<Null>>),
      OkEnv("data", IsoDate(14), <<Num(50000)>>) }

\* the provider as the scanner meets it: down, or answering with a changed
\* departure and a cheaper offer
ScanEnvs ==
    { e \in ProviderEnvs :
        \/ e.token = "fail"
        \/ e.shape = "data" /\ e.actual = IsoDt(21030) /\ e.offers = <<Num(50000), Missing>> }

\* the double 0.92
Double092 == DoubleBelowOne(61740154, 118111601)

\* cheapest < original_price_usd * 0.92, both prices given in cents and
\* compared as the doubles they are in dollars
BelowThreshold(cheapest, original) ==
    CASE original = 0 -> cheapest < 0
      [] original > 0 ->
           \/ cheapest <= 0
           \/ LessDouble(DoubleOfRatio(cheapest, 100),
                         MulDouble(DoubleOfRatio(original, 100), Double092))
      [] original < 0 ->
           /\ cheapest < 0
           /\ LessDouble(MulDouble(DoubleOfRatio(-original, 100), Double092),
                         DoubleOfRatio(-cheapest, 100))

\* (booking.get("depart_datetime", "") or "")[:10]
DepartDate(booking) ==
    LET v == Or(Get(booking, "depart_datetime", Str(<<>>)), Str(<<>>))
    IN  IF IsDict(v) THEN Raised("TypeError")
        ELSE CASE v.tag = "isodt" -> IsoDate(v.minute \div 1440)
               [] v.tag = "isodate" -> v
               [] v.tag = "name" -> NamePrefix(v.w, 10)
               [] v.tag = "str" ->
                    Str(SubSeq(v.chars, 1, IF Len(v.chars) < 10 THEN Len(v.chars) ELSE 10))
               [] OTHER -> Raised("TypeError")

\* the statements inside the try block of _live_flight_changes
_live_flight_changes_try(booking, env) ==
    IF ~IsDict(booking) THEN Raised("AttributeError")
    ELSE
    LET carrier == Get(booking, "carrier", Str(<<>>))
        flight_number == Get(booking, "flight_number", Str(<<>>))
        depart_date == DepartDate(booking)
        original_dt == Get(booking, "depart_datetime", Str(<<>>))
        actual_dt == env.actual
    IN  IF IsRaised(depart_date) THEN depart_date
        ELSE IF ~(Truthy(carrier) /\ Truthy(flight_number) /\ Truthy(depart_date)) THEN Returned(<<>>)
        ELSE IF env.token # "ok" THEN Raised("HTTPStatusError")
        ELSE IF ~IsString(flight_number) THEN Raised("AttributeError")
        ELSE IF ~IsString(carrier) THEN Raised("TypeError")
        ELSE IF env.request # "ok" THEN Raised("TransportError")
        ELSE IF env.status # 200 THEN Returned(<<>>)
        ELSE IF env.shape = "not_json" THEN Raised("JSONDecodeError")
        ELSE IF env.shape \in {"no_data", "empty"} THEN Returned(<<>>)
        ELSE IF env.shape = "bad_item" THEN Raised("AttributeError")
        ELSE IF ~(Truthy(actual_dt) /\ actual_dt # original_dt) THEN Returned(<<>>)
        ELSE IF ~IsString(actual_dt) THEN Raised("TypeError")
        ELSE Returned(<< [alert_type |-> "schedule_change",
                 message |-> [kind |-> "departure rescheduled to",
                              carrier |-> Fmt(carrier),
                              flight_number |-> Fmt(flight_number),
                              to |-> actual_dt],
                 details |-> [field |-> "departure_time",
                              old_value |-> original_dt,
                              new_value |-> actual_dt,
                              carrier |-> carrier,
                              flight_number |-> flight_number]] >>)

\* try: ... except Exception: log; return []
_live_flight_changes(booking, env) ==
    LET r == _live_flight_changes_try(booking, env)
    IN  IF IsRaised(r) THEN Returned(<<>>) ELSE r

\* float(o.get("price", {}).get("grandTotal", original_price_usd)) per offer
OfferPrices(offers, original_price_usd) ==
    [i \in 1..Len(offers) |->
        IF offers[i] = Missing THEN Num(original_price_usd) ELSE Float(offers[i])]

SeqMin(s) == CHOOSE m \in {s[i] : i \in 1..Len(s)} : \A j \in 1..Len(s) : m <= s[j]

\* the exception of the first offer whose price float() rejects: min() reads
\* the offers in order
FirstRaised(prices) ==
    prices[CHOOSE i \in 1..Len(prices) :
              IsRaised(prices[i]) /\ \A j \in 1..(i - 1) : ~IsRaised(prices[j])]

\* the statements inside the try block of _live_price_drop
_live_price_drop_try(booking, original_price_usd, env) ==
    IF ~IsDict(booking) THEN Raised("AttributeError")
    ELSE
    LET origin == Get(booking, "origin", Str(<<>>))
        destination == Get(booking, "destination", Str(<<>>))
        depart_date == DepartDate(booking)
        carrier == Get(booking, "carrier", Str(<<>>))
        flight_number == Get(booking, "flight_number", Str(<<>>))
        prices == OfferPrices(env.offers, original_price_usd)
    IN  IF IsRaised(depart_date) THEN depart_date
        ELSE IF ~(Truthy(origin) /\ Truthy(destination) /\ Truthy(depart_date)) THEN Returned(<<>>)
        ELSE IF env.token # "ok" THEN Raised("HTTPStatusError")
        ELSE IF env.request # "ok" THEN Raised("TransportError")
        ELSE IF env.status # 200 THEN Returned(<<>>)
        ELSE IF env.shape = "not_json" THEN Raised("JSONDecodeError")
        ELSE IF env.shape \in {"no_data", "empty"} THEN Returned(<<>>)
        ELSE IF env.shape = "bad_item" THEN Raised("AttributeError")
        ELSE IF \E i \in 1..Len(prices) : IsRaised(prices[i])
             THEN FirstRaised(prices)
        ELSE
        LET cheapest == SeqMin([i \in 1..Len(prices) |-> prices[i].n])
            savings == original_price_usd - cheapest
        IN  IF ~BelowThreshold(cheapest, original_price_usd) THEN Returned(<<>>)
            ELSE Returned(<< [alert_type |-> "price_drop",
                     message |-> [kind |-> "price drop",
                                  origin |-> Fmt(origin),
                                  destination |-> Fmt(destination),
                                  from |-> cheapest,
                                  paid |-> original_price_usd,
                                  save |-> savings],
                     details |-> [carrier |-> carrier,
                                  flight_number |-> flight_number,
                                  original_price_usd |-> Num(original_price_usd),
                                  new_price_usd |-> Num(cheapest),
                                  savings_usd |-> Num(savings)]] >>)

\* try: ... except Exception: log; return []
_live_price_drop(booking, original_price_usd, env) ==
    LET r == _live_price_drop_try(booking, original_price_usd, env)
    IN  IF IsRaised(r) THEN Returned(<<>>) ELSE r

\* ------------------------------------------------------------------------
\* Monitor service: public API
\* ------------------------------------------------------------------------
check_flight_changes(cfg, booking, env) ==
    IF cfg.booking_mock_mode \/ ~(cfg.amadeus_client_id # <<>>)
    THEN _mock_flight_changes(booking)
    ELSE _live_flight_changes(booking, env)

check_price_drops(cfg, booking, original_price_usd, env) ==
    IF cfg.booking_mock_mode \/ ~(cfg.amadeus_client_id # <<>>)
    THEN _mock_price_drop(booking, original_price_usd)
    ELSE _live_price_drop(booking, original_price_usd, env)

\* ------------------------------------------------------------------------
\* Modification service: the natural-language parser
\* ------------------------------------------------------------------------
\* A request is a sequence of words, standing for the words joined by single
\* blanks.  The words come from a vocabulary in which no word contains a
\* keyword of the parser as a proper part, except "nights" (night).

\* request.lower(), word by word
Lower(w) ==
    CASE w = "Extend" -> "extend"
      [] w = "Business" -> "business"
      [] w = "Class" -> "class"
      [] OTHER -> w

LowerStrip(request) == [i \in 1..Len(request) |-> Lower(request[i])]

_WORD_MAP(w) ==
    CASE w = "one" -> Num(1) [] w = "two" -> Num(2) [] w = "three" -> Num(3)
      [] w = "four" -> Num(4) [] w = "five" -> Num(5) [] w = "six" -> Num(6)
      [] w = "seven" -> Num(7) [] w = "eight" -> Num(8) [] w = "nine" -> Num(9)
      [] w = "ten" -> Num(10) [] w = "a" -> Num(1) [] w = "an" -> Num(1)
      [] OTHER -> Null

\* try: int(s) except ValueError: _WORD_MAP.get(s.lower())
_word_to_int(w) ==
    CASE w = "0" -> Num(0) [] w = "1" -> Num(1) [] w = "2" -> Num(2)
      [] w = "3" -> Num(3) [] w = "10" -> Num(10) [] w = "12" -> Num(12)
      [] w = "800000" -> Num(800000) [] w = "3000000" -> Num(3000000)
      [] OTHER -> _WORD_MAP(w)

\* the text "night" matches the start of a word
IsNight(w) == w \in {"night", "nights"}

\* the optional parts of the hotel patterns, in the order the regex engine
\* tries them: present before absent, the last part varying first
PatternChoice(c) ==
    [my |-> (c \div 12) = 0, hotel |-> 2 - ((c \div 4) % 3),
     by |-> ((c \div 2) % 2) = 0, more |-> (c % 2) = 0]

\* verb [my] [hotel [stay]] [by] <word> [more] night..., matched at word i
\* with the choice ch of optional parts
MatchesAt(r, i, verbs, ch) ==
    LET j_my == i + 1
        j_hotel == j_my + (IF ch.my THEN 1 ELSE 0)
        j_by == j_hotel + ch.hotel
        j_word == j_by + (IF ch.by THEN 1 ELSE 0)
        j_night == j_word + 1 + (IF ch.more THEN 1 ELSE 0)
    IN  /\ j_night <= Len(r)
        /\ r[i] \in verbs
        /\ ch.my => r[j_my] = "my"
        /\ ch.hotel >= 1 => r[j_hotel] = "hotel"
        /\ ch.hotel = 2 => r[j_hotel + 1] = "stay"
        /\ ch.by => r[j_by] = "by"
        /\ ch.more => r[j_word + 1] = "more"
        /\ IsNight(r[j_night])

GroupAt(i, ch) ==
    i + 1 + (IF ch.my THEN 1 ELSE 0) + ch.hotel + (IF ch.by THEN 1 ELSE 0)

\* re.search: the leftmost match, and there the first the engine finds;
\* the result is group(1), or <<>> when nothing matches
SearchNights(r, verbs, with_more) ==
    LET Tries == {<<i, c>> \in {k \in 1..Len(r) : r[k] \in verbs} \X (0..23) :
                    /\ with_more \/ ~PatternChoice(c).more
                    /\ MatchesAt(r, i, verbs, PatternChoice(c))}
    IN  IF Tries = {} THEN <<>>
        ELSE LET first == CHOOSE t \in Tries :
                             \A u \in Tries : t[1] < u[1] \/ (t[1] = u[1] /\ t[2] <= u[2])
             IN  <<r[GroupAt(first[1], PatternChoice(first[2]))]>>

HasWord(r, w) == \E i \in 1..Len(r) : r[i] = w

HasPair(r, w1, w2) == \E i \in 1..(Len(r) - 1) : r[i] = w1 /\ r[i + 1] = w2

\* upgrade\s+(?:my\s+)?(?:hotel\s+)?room
HasUpgradeRoom(r) ==
    \E i \in 1..Len(r) :
        /\ r[i] = "upgrade"
        /\ \/ i + 1 <= Len(r) /\ r[i + 1] = "room"
           \/ i + 2 <= Len(r) /\ r[i + 1] \in {"my", "hotel"} /\ r[i + 2] = "room"
           \/ i + 3 <= Len(r) /\ r[i + 1] = "my" /\ r[i + 2] = "hotel" /\ r[i + 3] = "room"

\* a chain that tests the cabin keywords before the hotel patterns
PatternOrderCabinFirst(extend, shorten, cabin, room) ==
    IF cabin THEN "seat_upgrade"
    ELSE IF extend THEN "hotel_extend"
    ELSE IF shorten THEN "hotel_shorten"
    ELSE IF room THEN "room_upgrade"
    ELSE "unknown"

\* the chain of if m: ... return of lines 86-119: the first test that
\* succeeds decides the type
PatternOrder(extend, shorten, cabin, room) ==
    IF extend THEN "hotel_extend"
    ELSE IF shorten THEN "hotel_shorten"
    ELSE IF cabin THEN "seat_upgrade"
    ELSE IF room THEN "room_upgrade"
    ELSE "unknown"

\* the parsed quantity without a default
NightsAsParsed(nights) == IF nights = Null THEN 0 ELSE nights.n

\* nights or 1
NightsOrOne(nights) == Or(nights, Num(1)).n

_parse_modification_request(request) ==
    LET r == LowerStrip(request)
        extend == SearchNights(r, {"extend", "add", "extra", "more"}, TRUE)
        shorten == SearchNights(r, {"shorten", "reduce", "cut", "fewer"}, FALSE)
        cabin == \/ HasPair(r, "business", "class") \/ HasPair(r, "first", "class")
                 \/ HasPair(r, "premium", "economy")
        room == \/ HasWord(r, "suite") \/ HasUpgradeRoom(r)
                \/ HasPair(r, "better", "room") \/ HasPair(r, "king", "room")
        type == PatternOrder(extend # <<>>, shorten # <<>>, cabin, room)
    IN  CASE type = "hotel_extend" ->
               [type |-> "hotel_extend", nights |-> NightsOrOne(_word_to_int(extend[1]))]
          [] type = "hotel_shorten" ->
               [type |-> "hotel_shorten", nights |-> NightsOrOne(_word_to_int(shorten[1]))]
          [] type = "seat_upgrade" ->
               [type |-> "seat_upgrade",
                cabin |-> IF HasWord(r, "business") THEN "BUSINESS"
                          ELSE IF HasWord(r, "first") THEN "FIRST"
                          ELSE "PREMIUM_ECONOMY"]
          [] type = "room_upgrade" ->
               [type |-> "room_upgrade",
                room_type |-> IF HasWord(r, "suite") THEN "suite"
                              ELSE IF HasWord(r, "king") THEN "king"
                              ELSE "deluxe"]
          [] OTHER -> [type |-> "unknown"]

\* ------------------------------------------------------------------------
\* Database rows (app/models.py) and the bookings the model starts from
\* ------------------------------------------------------------------------
TripIds == {1, 2}

FlightDetails(carrier, flight_number, depart_datetime, price_usd, cabin) ==
    [carrier |-> carrier, flight_number |-> flight_number,
     depart_datetime |-> depart_datetime, price_usd |-> price_usd,
     origin |-> Name("LAX"), destination |-> Name("NRT"), cabin |-> cabin]

EmptyFlight ==
    [carrier |-> Missing, flight_number |-> Missing, depart_datetime |-> Missing,
     price_usd |-> Missing, origin |-> Missing, destination |-> Missing,
     cabin |-> Missing]

EmptyDetails == [flight |-> Missing, hotel |-> Missing]

\* UA106: mock departure change; no stored price, no cabin
FlightUA106 ==
    FlightDetails(Str(<<"U", "A">>), Str(<<"U", "A", "1", "0", "6">>),
                  IsoDt(20790), Missing, Missing)

\* WN1789: mock gate change and mock price drop
FlightWN1789 ==
    FlightDetails(Str(<<"W", "N">>), Str(<<"W", "N", "1", "7", "8", "9">>),
                  IsoDt(43680), Num(120000), Name("BUSINESS"))

\* UA100: no mock alert; the stored price is not a number
FlightUA100 ==
    FlightDetails(Str(<<"U", "A">>), Str(<<"U", "A", "1", "0", "0">>),
                  IsoDt(20790), Str(<<"a", "b", "c">>), Name("ECONOMY"))

FlightTemplates ==
    { [type |-> "flight", status |-> "confirmed",
       details |-> [flight |-> FlightUA106, hotel |-> Missing]],
      [type |-> "flight", status |-> "confirmed",
       details |-> [flight |-> FlightWN1789, hotel |-> Missing]],
      [type |-> "flight", status |-> "confirmed",
       details |-> [flight |-> FlightUA100, hotel |-> Missing]],
      [type |-> "flight", status |-> "confirmed",
       details |-> [flight |-> Null, hotel |-> Missing]],
      [type |-> "flight", status |-> "pending",
       details |-> [flight |-> FlightWN1789, hotel |-> Missing]] }

HotelDetails(check_in, check_out, price_per_night_usd) ==
    [hotel_name |-> Name("Park Hyatt Tokyo"), check_in |-> check_in,
     check_out |-> check_out, room_type |-> Name("Standard Room"),
     price_per_night_usd |-> price_per_night_usd]

ScanHotelTemplates ==
    { [type |-> "hotel", status |-> "confirmed",
       details |-> [flight |-> Missing,
                    hotel |-> HotelDetails(IsoDate(14), IsoDate(24), Num(42000))]] }

BookingRow(trip_id, tpl) ==
    [trip_id |-> trip_id, type |-> tpl.type, status |-> tpl.status,
     details |-> tpl.details]

\* booking tables of at most n rows, in insertion order of the trips
BookingTables(templates, n) ==
    UNION { { b \in [1..k -> {BookingRow(t, tpl) : t \in TripIds, tpl \in templates}] :
                \A i \in 1..(k - 1) : b[i].trip_id <= b[i + 1].trip_id }
            : k \in 0..n }

\* the trips table: trip 1 may be unconfirmed or have lost its user
TripTables ==
    { << [id |-> 1, user_id |-> 1, status |-> "confirmed"],
         [id |-> 2, user_id |-> 2, status |-> "confirmed"] >>,
      << [id |-> 1, user_id |-> 3, status |-> "confirmed"],
         [id |-> 2, user_id |-> 2, status |-> "confirmed"] >>,
      << [id |-> 1, user_id |-> 1, status |-> "options_ready"],
         [id |-> 2, user_id |-> 2, status |-> "confirmed"] >> }

UserIds == {1, 2}

ExceptionKinds ==
    {"AttributeError", "ValueError", "TypeError", "OperationalError", "EmailArgsError"}

VARIABLES
    settings,        \* app.config.settings
    trips,           \* rows of table trips
    bookings,        \* rows of table bookings
    trip_alerts,     \* committed rows of table trip_alerts
    pc,              \* position of the scan task
    session,         \* the SQLAlchemy session db of the running cycle
    confirmed_trips, \* local of _async_scan_confirmed_trips
    tIdx,            \* index of the trip being processed
    flight_bookings, \* local: the confirmed flight bookings of the trip
    bIdx,            \* index of the booking being processed
    new_alerts,      \* local: rows added to the session, not yet committed
    exc,             \* exception in flight, "none" or "cancelled"
    cancel_requested, \* the task was cancelled while running; CancelledError not yet thrown
    cycle,           \* number of scan cycles that have ended
    outcome,         \* how the last cycle ended
    propagated,      \* what scan_confirmed_trips let escape to its caller
    scanned,         \* trips whose loop iteration completed in this cycle
    found,           \* per trip, the new alerts collected in this cycle
    alerts_before,   \* Len(trip_alerts) when the cycle started
    failed_trip,     \* trip in whose iteration the cycle stopped, 0 if none
    emails,          \* notification attempts of this cycle
    produced,        \* keys of the candidates detection returned in this cycle
    failed_before,   \* an earlier cycle ended with an exception
    checked,         \* booking rows change detection was called on in this cycle
    priced,          \* booking rows price-drop detection was called on in this cycle
    workers,         \* per overlapping scan: position and locals of its trip iteration
    call,            \* a service call under test: function and arguments
    ret,             \* what that call returned or raised; Pending before it
    commits,         \* number of db.commit() calls made by the modification service
    applied,         \* number of modification calls served
    handlers         \* per modification request in flight: position, request, rows loaded

scan_vars ==
    <<pc, session, confirmed_trips, tIdx, flight_bookings, bIdx, new_alerts, exc,
      cancel_requested,
      cycle, outcome, propagated, scanned, found, alerts_before, failed_trip, emails,
      produced, failed_before, checked, priced,
      workers>>

call_vars == <<call, ret, commits, applied, handlers>>

vars == <<settings, trips, bookings, trip_alerts, scan_vars, call_vars>>

Pending == [pending |-> TRUE]

NoCall == [fn |-> "none"]

\* ------------------------------------------------------------------------
\* Dates (datetime.date)
\* ------------------------------------------------------------------------
\* datetime.date: a date is its proleptic Gregorian ordinal, day 1 being
\* 0001-01-01 (date.toordinal)
IsLeap(year) == year % 4 = 0 /\ (year % 100 # 0 \/ year % 400 = 0)

DaysInMonth(year, month) ==
    CASE month \in {4, 6, 9, 11} -> 30
      [] month = 2 -> IF IsLeap(year) THEN 29 ELSE 28
      [] OTHER -> 31

DaysBeforeYear(year) ==
    LET y == year - 1
    IN  y * 365 + y \div 4 - y \div 100 + y \div 400

RECURSIVE DaysBeforeMonth(_, _)
DaysBeforeMonth(year, month) ==
    IF month = 1 THEN 0
    ELSE DaysBeforeMonth(year, month - 1) + DaysInMonth(year, month - 1)

\* date(year, month, day) raises ValueError unless the day exists
ValidDate(year, month, day) ==
    /\ year \in 1..9999
    /\ month \in 1..12
    /\ day \in 1..DaysInMonth(year, month)

\* date(year, month, day).toordinal()
Ymd2Ord(year, month, day) == DaysBeforeYear(year) + DaysBeforeMonth(year, month) + day

\* date.max.toordinal(): 9999-12-31
MaxOrdinal == Ymd2Ord(9999, 12, 31)

\* "2026-06-01", the date IsoDate(0) spells
EpochOrdinal == Ymd2Ord(2026, 6, 1)

\* date + timedelta(days=n) of the date IsoDate(day) spells: the day number
\* of the result, OverflowError when it is not within date.min..date.max
DateShift(day, n) ==
    IF EpochOrdinal + day + n < 1 \/ EpochOrdinal + day + n > MaxOrdinal
    THEN Raised("OverflowError")
    ELSE Returned(day + n)

\* ------------------------------------------------------------------------
\* Modification service: the handlers (app/services/modification.py)
\* ------------------------------------------------------------------------
\* A handler yields what it returned or raised, the booking objects as it
\* left them, and the number of db.commit() calls it made.
Out(r, bks, n) == [ret |-> r, bookings |-> bks, commits |-> n]

EmptyHotel ==
    [hotel_name |-> Missing, check_in |-> Missing, check_out |-> Missing,
     room_type |-> Missing, price_per_night_usd |-> Missing]

\* date.fromisoformat(v): a day number, ValueError for any other string,
\* TypeError for a value that is not a string
FromIsoDate(v) ==
    IF IsDict(v) THEN Raised("TypeError")
    ELSE CASE v.tag = "isodate" -> Returned(v.day)
           [] v.tag \in {"str", "name", "isodt"} -> Raised("ValueError")
           [] OTHER -> Raised("TypeError")

_err(message) ==
    [success |-> FALSE, modification_type |-> "error", message |-> message,
     updated_details |-> Null]

\* index of the first confirmed booking of the type, 0 for None
_find_booking(bks, btype) ==
    LET hits == {i \in 1..Len(bks) : bks[i].type = btype /\ bks[i].status = "confirmed"}
    IN  IF hits = {} THEN 0 ELSE CHOOSE i \in hits : \A j \in hits : i <= j

\* a date change that writes the new date into check_in
_mock_hotel_date_change_check_in(hotel, field, new_value) ==
    [hotel EXCEPT !.check_in = new_value]

\* return {**hotel, field: new_value}
_mock_hotel_date_change(hotel, field, new_value) == [hotel EXCEPT ![field] = new_value]

\* raises NotImplementedError inside its own try and returns None
_live_hotel_modify(hotel, field, new_value) == Null

\* booking.details = {**details, key: updated}
SetDetails(bks, i, details, key, updated) ==
    [bks EXCEPT ![i].details = [details EXCEPT ![key] = updated]]

_modify_hotel_extend(cfg, bks, nights) ==
    LET i == _find_booking(bks, "hotel")
    IN  IF i = 0
        THEN Out(Returned(_err([kind |-> "NoConfirmedHotel"])), bks, 0)
        ELSE
        LET details == Or(bks[i].details, EmptyDetails)
            hotel == Get(details, "hotel", EmptyHotel)
        IN  IF ~IsDict(hotel) THEN Out(Raised("AttributeError"), bks, 0)
            ELSE
            LET check_out_str == Get(hotel, "check_out", Str(<<>>))
                check_out == FromIsoDate(check_out_str)
            IN  IF IsRaised(check_out)
                THEN IF check_out.raised = "ValueError"
                     THEN Out(Returned(_err([kind |-> "UnparseableCheckOut",
                                             value |-> check_out_str])), bks, 0)
                     ELSE Out(check_out, bks, 0)
                ELSE IF IsRaised(DateShift(check_out.returned, nights))
                THEN Out(DateShift(check_out.returned, nights), bks, 0)
                ELSE
                LET new_check_out == IsoDate(DateShift(check_out.returned, nights).returned)
                    updated == IF cfg.booking_mock_mode
                               THEN _mock_hotel_date_change(hotel, "check_out", new_check_out)
                               ELSE _live_hotel_modify(hotel, "check_out", new_check_out)
                IN  IF ~Truthy(updated)
                    THEN Out(Returned(_err([kind |-> "LiveHotelModificationFailed"])), bks, 0)
                    ELSE
                    LET committed == SetDetails(bks, i, details, "hotel", updated)
                        price_per_night == Get(hotel, "price_per_night_usd", Num(0))
                    IN  IF IsDict(price_per_night) \/ price_per_night.tag # "num"
                        THEN Out(Raised("TypeError"), committed, 1)
                        ELSE Out(Returned(
                                 [success |-> TRUE, modification_type |-> "hotel_extend",
                                  message |-> [kind |-> "HotelExtended", nights |-> nights,
                                               check_out |-> new_check_out,
                                               extra_cost |-> price_per_night.n * nights],
                                  updated_details |-> updated]), committed, 1)

\* if new_check_out <= check_in: (line 202)
ShortenRejects(new_check_out, check_in) == new_check_out <= check_in

_modify_hotel_shorten(cfg, bks, nights) ==
    LET i == _find_booking(bks, "hotel")
    IN  IF i = 0
        THEN Out(Returned(_err([kind |-> "NoConfirmedHotel"])), bks, 0)
        ELSE
        LET details == Or(bks[i].details, EmptyDetails)
            hotel == Get(details, "hotel", EmptyHotel)
        IN  IF ~IsDict(hotel) THEN Out(Raised("AttributeError"), bks, 0)
            ELSE
            LET check_out == FromIsoDate(Get(hotel, "check_out", Str(<<>>)))
                check_in == FromIsoDate(Get(hotel, "check_in", Str(<<>>)))
            IN  IF IsRaised(check_out)
                THEN IF check_out.raised = "ValueError"
                     THEN Out(Returned(_err([kind |-> "UnparseableDates"])), bks, 0)
                     ELSE Out(check_out, bks, 0)
                ELSE IF IsRaised(check_in)
                THEN IF check_in.raised = "ValueError"
                     THEN Out(Returned(_err([kind |-> "UnparseableDates"])), bks, 0)
                     ELSE Out(check_in, bks, 0)
                ELSE IF IsRaised(DateShift(check_out.returned, -nights))
                THEN Out(DateShift(check_out.returned, -nights), bks, 0)
                ELSE
                LET new_check_out == DateShift(check_out.returned, -nights).returned
                    updated == IF cfg.booking_mock_mode
                               THEN _mock_hotel_date_change(hotel, "check_out",
                                                            IsoDate(new_check_out))
                               ELSE _live_hotel_modify(hotel, "check_out",
                                                       IsoDate(new_check_out))
                IN  IF ShortenRejects(new_check_out, check_in.returned)
                    THEN Out(Returned(_err([kind |-> "InvalidDuration"])), bks, 0)
                    ELSE IF ~Truthy(updated)
                    THEN Out(Returned(_err([kind |-> "LiveHotelModificationFailed"])), bks, 0)
                    ELSE Out(Returned(
                             [success |-> TRUE, modification_type |-> "hotel_shorten",
                              message |-> [kind |-> "HotelShortened", nights |-> nights,
                                           check_out |-> IsoDate(new_check_out)],
                              updated_details |-> updated]),
                             SetDetails(bks, i, details, "hotel", updated), 1)

\* a premium table in which FIRST costs what BUSINESS costs
CabinPremiumFlat(c) ==
    IF IsDict(c) THEN Raised("TypeError")
    ELSE IF c.tag # "name" THEN Returned(0)
    ELSE CASE c.w = "PREMIUM_ECONOMY" -> Returned(35000)
           [] c.w = "BUSINESS" -> Returned(120000)
           [] c.w = "FIRST" -> Returned(120000)
           [] OTHER -> Returned(0)

\* cabin_premiums.get(c, 0), in cents; a dict is not hashable and cannot be
\* looked up
CabinPremium(c) ==
    IF IsDict(c) THEN Raised("TypeError")
    ELSE IF c.tag # "name" THEN Returned(0)
    ELSE CASE c.w = "PREMIUM_ECONOMY" -> Returned(35000)
           [] c.w = "BUSINESS" -> Returned(120000)
           [] c.w = "FIRST" -> Returned(250000)
           [] OTHER -> Returned(0)

\* c.replace("_", " ").title()
CabinLabel(w) ==
    CASE w = "ECONOMY" -> "Economy"
      [] w = "PREMIUM_ECONOMY" -> "Premium Economy"
      [] w = "BUSINESS" -> "Business"
      [] w = "FIRST" -> "First"
      [] w = "BASIC_ECONOMY" -> "Basic Economy"

\* current_cabin.replace("_", " ").title() of a cabin that is a string
CabinLabelOf(c) == IF c.tag = "name" THEN CabinLabel(c.w) ELSE [title |-> c]

AlreadyInCabinExceptEconomy(current_cabin, cabin) ==
    current_cabin = Name(cabin) /\ cabin # "ECONOMY"

\* current_cabin == cabin
AlreadyInCabin(current_cabin, cabin) == current_cabin = Name(cabin)

\* if settings.booking_mock_mode: (line 240)
SeatUpgradeSimulated(cfg) == cfg.booking_mock_mode

_modify_seat_upgrade(cfg, bks, cabin) ==
    LET i == _find_booking(bks, "flight")
    IN  IF i = 0
        THEN Out(Returned(_err([kind |-> "NoConfirmedFlight"])), bks, 0)
        ELSE
        LET details == Or(bks[i].details, EmptyDetails)
            flight == Get(details, "flight", EmptyFlight)
        IN  IF ~IsDict(flight) THEN Out(Raised("AttributeError"), bks, 0)
            ELSE
            LET current_cabin == Get(flight, "cabin", Name("ECONOMY"))
                updated_flight == [flight EXCEPT !.cabin = Name(cabin)]
                upgrade_cost == CabinPremium(Name(cabin)).returned
                                    - CabinPremium(current_cabin).returned
                committed == SetDetails(bks, i, details, "flight", updated_flight)
            IN  IF AlreadyInCabin(current_cabin, cabin)
                THEN Out(Returned(_err([kind |-> "AlreadyAtTarget", cabin |-> cabin])), bks, 0)
                ELSE IF ~SeatUpgradeSimulated(cfg)
                THEN Out(Returned(_err([kind |-> "LiveSeatUpgradeUnsupported"])), bks, 0)
                ELSE IF IsRaised(CabinPremium(current_cabin))
                THEN Out(CabinPremium(current_cabin), bks, 0)
                ELSE IF current_cabin.tag \in {"null", "num"}
                THEN Out(Raised("AttributeError"), committed, 1)
                ELSE Out(Returned(
                         [success |-> TRUE, modification_type |-> "seat_upgrade",
                          message |-> [kind |-> "CabinUpgraded",
                                       from |-> CabinLabelOf(current_cabin),
                                       to |-> CabinLabel(cabin),
                                       upgrade_cost |-> upgrade_cost],
                          updated_details |-> updated_flight]), committed, 1)

\* type_map.get(room_type, "Upgraded Room")
NewRoom(room_type) ==
    CASE room_type = "suite" -> "Junior Suite"
      [] room_type = "king" -> "King Room"
      [] room_type = "deluxe" -> "Deluxe Room"
      [] OTHER -> "Upgraded Room"

\* cost_map.get(room_type, 60), in cents
ExtraPerNight(room_type) ==
    CASE room_type = "suite" -> 15000
      [] room_type = "king" -> 5000
      [] room_type = "deluxe" -> 8000
      [] OTHER -> 6000

Max(a, b) == IF a >= b THEN a ELSE b

_modify_room_upgrade(cfg, bks, room_type) ==
    LET i == _find_booking(bks, "hotel")
    IN  IF i = 0
        THEN Out(Returned(_err([kind |-> "NoConfirmedHotel"])), bks, 0)
        ELSE
        LET details == Or(bks[i].details, EmptyDetails)
            hotel == Get(details, "hotel", EmptyHotel)
        IN  IF ~IsDict(hotel) THEN Out(Raised("AttributeError"), bks, 0)
            ELSE IF ~cfg.booking_mock_mode
            THEN Out(Returned(_err([kind |-> "LiveRoomUpgradeUnsupported"])), bks, 0)
            ELSE
            LET current_room == Get(hotel, "room_type", Name("Standard Room"))
                check_out == FromIsoDate(Get(hotel, "check_out", Str(<<>>)))
                check_in == FromIsoDate(Get(hotel, "check_in", Str(<<>>)))
                failed == IF IsRaised(check_out) THEN check_out
                          ELSE IF IsRaised(check_in) THEN check_in
                          ELSE Returned(0)
                nights == IF IsRaised(failed) THEN 1
                          ELSE check_out.returned - check_in.returned
                updated_hotel == [hotel EXCEPT !.room_type = Name(NewRoom(room_type))]
            IN  IF IsRaised(failed) /\ failed.raised # "ValueError"
                THEN Out(failed, bks, 0)
                ELSE Out(Returned(
                         [success |-> TRUE, modification_type |-> "room_upgrade",
                          message |-> [kind |-> "RoomUpgraded", from |-> current_room,
                                       to |-> NewRoom(room_type),
                                       extra_total |->
                                           ExtraPerNight(room_type) * Max(nights, 1)],
                          updated_details |-> updated_hotel]),
                         SetDetails(bks, i, details, "hotel", updated_hotel), 1)

Requests ==
    { <<"Extend", "my", "hotel", "by", "2", "nights">>,
      <<"add", "one", "more", "night">>,
      <<"shorten", "my", "hotel", "by", "2", "nights">>,
      <<"reduce", "hotel", "stay", "by", "1", "night">>,
      <<"shorten", "my", "hotel", "by", "800000", "nights">>,
      <<"extend", "my", "hotel", "by", "3000000", "nights">>,
      <<"upgrade", "to", "business", "class">>,
      <<"first", "class">>,
      <<"upgrade", "my", "room", "to", "a", "suite">>,
      <<"cancel", "my", "trip">>,
      <<"upgrade", "to", "business", "class", "and", "add", "2", "nights">> }

\* _parse_modification_request on the requests the model sends, computed once
ParsedRequests == [r \in Requests |-> _parse_modification_request(r)]

\* parsed = _parse_modification_request(request)
parsed_request(request) ==
    IF request \in Requests THEN ParsedRequests[request]
    ELSE _parse_modification_request(request)

apply_modification(cfg, bks, request) ==
    LET parsed == parsed_request(request)
    IN  CASE parsed.type = "hotel_extend" -> _modify_hotel_extend(cfg, bks, parsed.nights)
          [] parsed.type = "hotel_shorten" -> _modify_hotel_shorten(cfg, bks, parsed.nights)
          [] parsed.type = "seat_upgrade" -> _modify_seat_upgrade(cfg, bks, parsed.cabin)
          [] parsed.type = "room_upgrade" -> _modify_room_upgrade(cfg, bks, parsed.room_type)
          [] OTHER -> Out(Returned([success |-> FALSE, modification_type |-> "unknown",
                                    message |-> [kind |-> "NotUnderstood"],
                                    updated_details |-> Null]), bks, 0)

\* ------------------------------------------------------------------------
\* Scanner (app/tasks/monitor_tasks.py)
\* ------------------------------------------------------------------------
AlertKey(row) == <<row.trip_id, row.alert_type, row.message>>

\* the rows a query through the session sees: the scanner's dedup lookup is
\* made against the alerts already persisted, rows added to the session and
\* not yet committed are not among them
SessionQueryRows(persisted, pending) == persisted

\* a lookup that never finds a persisted alert
_alert_already_exists_never(rows, trip_id, alert_dict) == FALSE

_alert_already_exists(rows, trip_id, alert_dict) ==
    \E i \in 1..Len(rows) :
        /\ rows[i].trip_id = trip_id
        /\ rows[i].alert_type = alert_dict.alert_type
        /\ rows[i].message = alert_dict.message

CandidateKeys(trip_id, cands) ==
    {<<trip_id, cands[i].alert_type, cands[i].message>> : i \in 1..Len(cands)}

TripAlert(trip_id, cand) ==
    [trip_id |-> trip_id, alert_type |-> cand.alert_type, message |-> cand.message,
     details |-> cand.details, is_read |-> FALSE]

\* how many of the candidates the dedup lookup answered: the lookup is a
\* query through the session and raises when the query fails, so the loop
\* ends with all of them or stops at the first whose lookup raised
LookupsDone(cands) == 0..Len(cands)

\* for change in changes: if not _alert_already_exists(...): db.add; append
RECURSIVE AddNewAlerts(_, _, _, _)
AddNewAlerts(persisted, pending, trip_id, cands) ==
    IF cands = <<>> THEN pending
    ELSE IF _alert_already_exists(SessionQueryRows(persisted, pending), trip_id, Head(cands))
         THEN AddNewAlerts(persisted, pending, trip_id, Tail(cands))
         ELSE AddNewAlerts(persisted, Append(pending, TripAlert(trip_id, Head(cands))),
                           trip_id, Tail(cands))

\* a commit that persists the batch row by row and stops after the first
db_commit_first_only(persisted, pending) == Append(persisted, Head(pending))

\* a commit that writes the batch over the rows already persisted
db_commit_replace(persisted, pending) == pending

\* db.commit(): every row added to the session becomes persistent at once
db_commit(persisted, pending) == persisted \o pending

\* send_alert_email: skips without an API key, swallows a delivery failure
send_alert_email(cfg, delivery_ok) ==
    IF ~(cfg.sendgrid_api_key # <<>>) THEN "skipped"
    ELSE IF delivery_ok THEN "sent" ELSE "failed"

\* a guard that lets the failure of the notification escape
alert_email_guard_reraise(result) ==
    IF result = "raised" THEN "propagate" ELSE "continue"

\* try: ... await send_alert_email(...) except Exception: log
alert_email_guard(result) == "continue"

\* an entry point without the except clause
scan_confirmed_trips_no_except(e) == e

\* scan_confirmed_trips: except Exception: log; anything else escapes
scan_confirmed_trips_except(e) == IF e \in ExceptionKinds THEN "none" ELSE e

CurTrip == confirmed_trips[tIdx]

CurFlight ==
    LET details == Or(flight_bookings[bIdx].details, EmptyDetails)
    IN  Get(details, "flight", EmptyFlight)

Fail(kind, trip_id) ==
    /\ exc' = kind
    /\ failed_trip' = trip_id
    /\ pc' = "finally"

Workers == 1..MaxWorkers

\* a modification request whose handler has not loaded the bookings yet
IdleHandler == [pc |-> "load", request |-> <<>>, loaded |-> <<>>, ret |-> Pending]

NoHandlers == [w \in Workers |-> IdleHandler]

\* a scan that has not entered the loop body for a trip yet
IdleWorker ==
    [pc |-> "idle", trip_id |-> 0, flight_bookings |-> <<>>, bIdx |-> 0,
     new_alerts |-> <<>>]

\* no scan cycle has run yet
ScanIdle ==
    /\ trip_alerts = <<>>
    /\ pc = "idle"
    /\ session = "none"
    /\ confirmed_trips = <<>>
    /\ tIdx = 0
    /\ flight_bookings = <<>>
    /\ bIdx = 0
    /\ new_alerts = <<>>
    /\ exc = "none"
    /\ cancel_requested = FALSE
    /\ cycle = 0
    /\ outcome = "none"
    /\ propagated = "none"
    /\ scanned = {}
    /\ found = [t \in TripIds |-> <<>>]
    /\ alerts_before = 0
    /\ failed_trip = 0
    /\ emails = <<>>
    /\ produced = {}
    /\ failed_before = FALSE
    /\ checked = {}
    /\ priced = {}
    /\ workers = [w \in Workers |-> IdleWorker]

ScanInit ==
    /\ settings \in {c \in SettingsSet : c.booking_mock_mode = (c.amadeus_client_id = <<>>)}
    /\ trips \in TripTables
    /\ bookings \in BookingTables(FlightTemplates \cup ScanHotelTemplates, MaxBookings)
    /\ ScanIdle
    /\ call = NoCall
    /\ ret = Pending
    /\ commits = 0
    /\ applied = 0
    /\ handlers = NoHandlers

\* db = SessionLocal(); confirmed_trips = db.query(Trip).filter(...).all()
ScanStart ==
    /\ pc = "idle"
    /\ cycle < MaxCycles
    /\ session' = "open"
    /\ scanned' = {}
    /\ found' = [t \in TripIds |-> <<>>]
    /\ alerts_before' = Len(trip_alerts)
    /\ emails' = <<>>
    /\ outcome' = "running"
    /\ propagated' = "none"
    /\ produced' = {}
    /\ failed_before' = (failed_before \/ outcome = "failed")
    /\ checked' = {}
    /\ priced' = {}
    /\ cancel_requested' = FALSE
    /\ \E query_ok \in BOOLEAN :
         IF query_ok
         THEN /\ confirmed_trips' = SelectSeq(trips, LAMBDA t : t.status = "confirmed")
              /\ tIdx' = 1
              /\ pc' = "loop"
              /\ UNCHANGED <<exc, failed_trip>>
         ELSE /\ Fail("OperationalError", 0)
              /\ UNCHANGED <<confirmed_trips, tIdx>>
    /\ UNCHANGED call_vars
    /\ UNCHANGED <<settings, trips, bookings, trip_alerts, flight_bookings, bIdx,
                   new_alerts, cycle,
                   workers>>

\* for trip in confirmed_trips: the user query, if not user: continue, the
\* flight_bookings query; either query can raise
NextTrip ==
    /\ pc = "loop"
    /\ IF tIdx > Len(confirmed_trips)
       THEN /\ pc' = "finally"
            /\ UNCHANGED <<tIdx, flight_bookings, bIdx, new_alerts, exc, failed_trip>>
       ELSE \E user_query_ok \in BOOLEAN, bookings_query_ok \in BOOLEAN :
            IF ~user_query_ok
            THEN /\ Fail("OperationalError", CurTrip.id)
                 /\ UNCHANGED <<tIdx, flight_bookings, bIdx, new_alerts>>
            ELSE IF CurTrip.user_id \notin UserIds
            THEN /\ tIdx' = tIdx + 1
                 /\ UNCHANGED <<pc, flight_bookings, bIdx, new_alerts, exc, failed_trip>>
            ELSE IF ~bookings_query_ok
            THEN /\ Fail("OperationalError", CurTrip.id)
                 /\ UNCHANGED <<tIdx, flight_bookings, bIdx, new_alerts>>
            ELSE LET fb == SelectSeq(bookings, LAMBDA b : /\ b.trip_id = CurTrip.id
                                                          /\ b.type = "flight"
                                                          /\ b.status = "confirmed")
                 IN  /\ flight_bookings' = fb
                     /\ new_alerts' = <<>>
                     /\ bIdx' = 1
                     /\ pc' = IF fb = <<>> THEN "commit" ELSE "changes"
                     /\ UNCHANGED <<tIdx, exc, failed_trip>>
    /\ UNCHANGED <<call_vars, cancel_requested>>
    /\ UNCHANGED <<settings, trips, bookings, trip_alerts, session, confirmed_trips,
                   cycle, outcome, propagated, scanned, found, alerts_before,
                   emails, produced, failed_before, checked, priced,
                   workers>>

\* check_flight_changes and check_price_drops take the live branch
LiveDetection(cfg) == ~(cfg.booking_mock_mode \/ ~(cfg.amadeus_client_id # <<>>))

\* await check_flight_changes(flight) suspends the task: the live function
\* gets as far as the token request (monitor.py lines 190-197); the mock
\* function and the early returns never give up control
ChangesSuspends ==
    /\ LiveDetection(settings)
    /\ IsDict(CurFlight)
    /\ ~IsRaised(DepartDate(CurFlight))
    /\ Truthy(Get(CurFlight, "carrier", Str(<<>>)))
    /\ Truthy(Get(CurFlight, "flight_number", Str(<<>>)))
    /\ Truthy(DepartDate(CurFlight))

\* the dedup loop over the changes found for the booking (lines 70-78)
DedupChanges(changes) ==
    IF IsRaised(changes)
    THEN /\ Fail(changes.raised, CurTrip.id)
         /\ UNCHANGED <<new_alerts, found, produced>>
    ELSE \E looked_up \in LookupsDone(changes.returned) :
         LET pending == AddNewAlerts(trip_alerts, new_alerts, CurTrip.id,
                                     SubSeq(changes.returned, 1, looked_up))
         IN  /\ produced' = produced \cup CandidateKeys(CurTrip.id, changes.returned)
             /\ new_alerts' = pending
             /\ found' = [found EXCEPT ![CurTrip.id] = pending]
             /\ IF looked_up = Len(changes.returned)
                THEN /\ pc' = "price"
                     /\ UNCHANGED <<exc, failed_trip>>
                ELSE Fail("OperationalError", CurTrip.id)

\* changes = await check_flight_changes(flight), then the dedup loop
CheckChanges ==
    /\ pc = "changes"
    /\ ~(cancel_requested /\ ChangesSuspends)
    /\ checked' = checked \cup {flight_bookings[bIdx]}
    /\ UNCHANGED <<priced, cancel_requested>>
    /\ \E env \in ScanEnvs : DedupChanges(check_flight_changes(settings, CurFlight, env))
    /\ UNCHANGED call_vars
    /\ UNCHANGED <<settings, trips, bookings, trip_alerts, session, confirmed_trips,
                   tIdx, flight_bookings, bIdx, cycle, outcome, propagated, scanned,
                   alerts_before, emails, failed_before,
                   workers>>

\* original_price = float(flight.get("price_usd", 0) or 0)
OriginalPrice ==
    IF ~IsDict(CurFlight) THEN Raised("AttributeError")
    ELSE Float(Or(Get(CurFlight, "price_usd", Num(0)), Num(0)))

\* await check_price_drops(flight, original_price) suspends the task: the
\* price is positive and the live function gets as far as the token request
\* (monitor.py lines 258-267)
PriceSuspends ==
    /\ LiveDetection(settings)
    /\ ~IsRaised(OriginalPrice)
    /\ OriginalPrice.n > 0
    /\ ~IsRaised(DepartDate(CurFlight))
    /\ Truthy(Get(CurFlight, "origin", Str(<<>>)))
    /\ Truthy(Get(CurFlight, "destination", Str(<<>>)))
    /\ Truthy(DepartDate(CurFlight))

\* the dedup loop over the price drops found for the booking (lines 85-94),
\* then the next booking
DedupDrops(original_price, drops) ==
    /\ priced' = IF ~IsRaised(original_price) /\ original_price.n > 0
                  THEN priced \cup {flight_bookings[bIdx]}
                  ELSE priced
    /\ IF IsRaised(original_price)
       THEN /\ Fail(original_price.raised, CurTrip.id)
            /\ UNCHANGED <<new_alerts, found, bIdx, produced>>
       ELSE IF IsRaised(drops)
       THEN /\ Fail(drops.raised, CurTrip.id)
            /\ UNCHANGED <<new_alerts, found, bIdx, produced>>
       ELSE \E looked_up \in LookupsDone(drops.returned) :
            LET pending == AddNewAlerts(trip_alerts, new_alerts, CurTrip.id,
                                        SubSeq(drops.returned, 1, looked_up))
            IN  /\ produced' = produced \cup CandidateKeys(CurTrip.id, drops.returned)
                /\ new_alerts' = pending
                /\ found' = [found EXCEPT ![CurTrip.id] = pending]
                /\ IF looked_up = Len(drops.returned)
                   THEN /\ bIdx' = bIdx + 1
                        /\ pc' = IF bIdx + 1 > Len(flight_bookings) THEN "commit"
                                 ELSE "changes"
                        /\ UNCHANGED <<exc, failed_trip>>
                   ELSE /\ Fail("OperationalError", CurTrip.id)
                        /\ UNCHANGED bIdx

\* if original_price > 0: drops = await check_price_drops(flight, original_price)
PriceDrops(original_price, env) ==
    DedupDrops(original_price,
               IF ~IsRaised(original_price) /\ original_price.n > 0
               THEN check_price_drops(settings, CurFlight, original_price.n, env)
               ELSE Returned(<<>>))

\* the price of the booking, the price-drop check and its dedup loop
CheckPrice ==
    /\ pc = "price"
    /\ ~(cancel_requested /\ PriceSuspends)
    /\ \E env \in ScanEnvs : PriceDrops(OriginalPrice, env)
    /\ UNCHANGED <<call_vars, cancel_requested>>
    /\ UNCHANGED <<settings, trips, bookings, trip_alerts, session, confirmed_trips,
                   tIdx, flight_bookings, cycle, outcome, propagated, scanned,
                   alerts_before, emails, failed_before, checked,
                   workers>>

\* if new_alerts: db.commit(); for alert in new_alerts: db.refresh(alert).
\* The commit can fail, and so can a refresh of a row just committed
Commit ==
    /\ pc = "commit"
    /\ IF new_alerts = <<>>
       THEN /\ scanned' = scanned \cup {CurTrip.id}
            /\ tIdx' = tIdx + 1
            /\ pc' = "loop"
            /\ UNCHANGED <<trip_alerts, exc, failed_trip>>
       ELSE \E commit_ok \in BOOLEAN, refresh_ok \in BOOLEAN :
            IF ~commit_ok
            THEN /\ Fail("OperationalError", CurTrip.id)
                 /\ UNCHANGED <<trip_alerts, scanned, tIdx>>
            ELSE /\ trip_alerts' = db_commit(trip_alerts, new_alerts)
                 /\ UNCHANGED <<scanned, tIdx>>
                 /\ IF refresh_ok
                    THEN /\ pc' = "notify"
                         /\ UNCHANGED <<exc, failed_trip>>
                    ELSE Fail("OperationalError", CurTrip.id)
    /\ UNCHANGED <<call_vars, cancel_requested>>
    /\ UNCHANGED <<settings, trips, bookings, session, confirmed_trips,
                   flight_bookings, bIdx, new_alerts, cycle, outcome, propagated,
                   found, alerts_before, emails, produced, failed_before, checked, priced,
                   workers>>

\* alerts=[{"alert_type": a.alert_type, "message": a.message} for a in new_alerts]
EmailAlerts(alerts) ==
    [i \in 1..Len(alerts) |->
        [alert_type |-> alerts[i].alert_type, message |-> alerts[i].message]]

\* the best-effort email about the trip's new alerts; send_alert_email has
\* no await of its own, the task is not suspended in it
Notify ==
    /\ pc = "notify"
    /\ \E args_ok \in BOOLEAN, delivery_ok \in BOOLEAN :
         LET result == IF ~args_ok THEN "raised"
                       ELSE send_alert_email(settings, delivery_ok)
         IN  /\ emails' = Append(emails,
                    [trip_id |-> CurTrip.id,
                     alerts |-> EmailAlerts(new_alerts),
                     result |-> result])
             /\ IF alert_email_guard(result) = "continue"
                THEN /\ scanned' = scanned \cup {CurTrip.id}
                     /\ tIdx' = tIdx + 1
                     /\ pc' = "loop"
                     /\ UNCHANGED <<exc, failed_trip>>
                ELSE /\ Fail("EmailArgsError", CurTrip.id)
                     /\ UNCHANGED <<scanned, tIdx>>
    /\ UNCHANGED <<call_vars, cancel_requested>>
    /\ UNCHANGED <<settings, trips, bookings, trip_alerts, session, confirmed_trips,
                   flight_bookings, bIdx, new_alerts, cycle, outcome, propagated,
                   found, alerts_before, produced, failed_before, checked, priced,
                   workers>>

\* task.cancel() while the task is running (a signal handler, a callback):
\* the task is marked, CancelledError is thrown into it when it is next
\* suspended
RequestCancel ==
    /\ pc \in {"loop", "changes", "price", "commit", "notify", "finally"}
    /\ ~cancel_requested
    /\ cancel_requested' = TRUE
    /\ UNCHANGED call_vars
    /\ UNCHANGED <<settings, trips, bookings, trip_alerts, pc, session, confirmed_trips,
                   tIdx, flight_bookings, bIdx, new_alerts, exc, cycle, outcome,
                   propagated, scanned, found, alerts_before, failed_trip, emails,
                   produced, failed_before, checked, priced,
                   workers>>

\* CancelledError is thrown at the await the task is suspended in, that of
\* the live detection call on the booking: the cancellation was requested
\* before, or arrives while the task waits for the provider.  The call was
\* made; its except Exception does not catch CancelledError
Cancel ==
    /\ \/ pc = "changes" /\ ChangesSuspends
       \/ pc = "price" /\ PriceSuspends
    /\ checked' = IF pc = "changes" THEN checked \cup {flight_bookings[bIdx]} ELSE checked
    /\ priced' = IF pc = "price" THEN priced \cup {flight_bookings[bIdx]} ELSE priced
    /\ cancel_requested' = FALSE
    /\ Fail("cancelled", CurTrip.id)
    /\ UNCHANGED call_vars
    /\ UNCHANGED <<settings, trips, bookings, trip_alerts, session, confirmed_trips,
                   tIdx, flight_bookings, bIdx, new_alerts, cycle, outcome,
                   propagated, scanned, found, alerts_before, emails, produced,
                   failed_before,
                   workers>>

\* finally: db.close() -- the session ends and drops what was not committed
db_close(s) == "closed"

Finally ==
    /\ pc = "finally"
    /\ session' = db_close(session)
    /\ new_alerts' = <<>>
    /\ confirmed_trips' = <<>>
    /\ flight_bookings' = <<>>
    /\ tIdx' = 0
    /\ bIdx' = 0
    /\ pc' = "return"
    /\ UNCHANGED <<call_vars, cancel_requested>>
    /\ UNCHANGED <<settings, trips, bookings, trip_alerts, exc, cycle, outcome,
                   propagated, scanned, found, alerts_before, failed_trip, emails,
                   produced, failed_before, checked, priced,
                   workers>>

\* asyncio.run(coro): what it raises when the coroutine ended with e.  A
\* task that was cancelled while running and came to its end without being
\* suspended again ends cancelled; an exception of the coroutine wins over
\* the mark
asyncio_run(e, must_cancel) == IF e = "none" /\ must_cancel THEN "cancelled" ELSE e

\* scan_confirmed_trips returns to the scheduler
Return ==
    /\ pc = "return"
    /\ propagated' = scan_confirmed_trips_except(asyncio_run(exc, cancel_requested))
    /\ outcome' = CASE asyncio_run(exc, cancel_requested) = "none" -> "ok"
                    [] asyncio_run(exc, cancel_requested) = "cancelled" -> "cancelled"
                    [] OTHER -> "failed"
    /\ exc' = "none"
    /\ cancel_requested' = FALSE
    /\ cycle' = cycle + 1
    /\ pc' = "idle"
    /\ UNCHANGED call_vars
    /\ UNCHANGED <<settings, trips, bookings, trip_alerts, session, confirmed_trips,
                   tIdx, flight_bookings, bIdx, new_alerts, scanned, found,
                   alerts_before, failed_trip, emails, produced, failed_before, checked, priced,
                   workers>>

ScanNext ==
    \/ ScanStart
    \/ NextTrip
    \/ CheckChanges
    \/ CheckPrice
    \/ Commit
    \/ Notify
    \/ RequestCancel
    \/ Cancel
    \/ Finally
    \/ Return

Spec == ScanInit /\ [][ScanNext]_vars

\* ------------------------------------------------------------------------
\* The live monitor functions called on their own
\* ------------------------------------------------------------------------
\* a flight whose stored departure is null, and one whose departure is a number
FlightNoDeparture ==
    FlightDetails(Str(<<"U", "A">>), Str(<<"U", "A", "1", "0", "3">>),
                  Null, Num(72000), Name("ECONOMY"))

FlightBadDeparture ==
    FlightDetails(Str(<<"U", "A">>), Str(<<"U", "A", "1", "0", "3">>),
                  Num(5), Num(72000), Name("ECONOMY"))

\* a flight whose stored departure is the word "tomorrow", and one whose
\* departure is the date 2026-06-15 without a time
FlightNamedDeparture ==
    FlightDetails(Str(<<"U", "A">>), Str(<<"U", "A", "1", "0", "3">>),
                  Name("tomorrow"), Num(72000), Name("ECONOMY"))

FlightDateDeparture ==
    FlightDetails(Str(<<"U", "A">>), Str(<<"U", "A", "1", "0", "3">>),
                  IsoDate(14), Num(72000), Name("ECONOMY"))

\* a flight whose number is stored as a number
FlightNumericNumber ==
    FlightDetails(Str(<<"U", "A">>), Num(103), IsoDt(20790), Num(72000), Name("ECONOMY"))

LiveFlights ==
    {FlightUA106, FlightWN1789, FlightUA100, FlightNoDeparture, FlightBadDeparture,
     FlightNamedDeparture, FlightDateDeparture, FlightNumericNumber, EmptyFlight, Null}

\* original prices (cents) passed to the price-drop check; the scanner calls
\* it with positive prices only (monitor_tasks.py line 83)
LivePrices == {1100, 85000}

LiveCalls ==
    [fn : {"_live_flight_changes"}, booking : LiveFlights, env : ProviderEnvs]
    \cup [fn : {"_live_price_drop"}, booking : LiveFlights, env : ProviderEnvs,
          original_price_usd : LivePrices]

MonitorInit ==
    /\ settings \in {c \in SettingsSet : c.amadeus_client_id # <<>>}
    /\ trips \in {t \in TripTables : \A i \in 1..Len(t) : t[i].user_id \in UserIds
                                                         /\ t[i].status = "confirmed"}
    /\ bookings = <<>>
    /\ ScanIdle
    /\ call \in LiveCalls
    /\ ret = Pending
    /\ commits = 0
    /\ applied = 0
    /\ handlers = NoHandlers

CallLiveFlightChanges ==
    /\ ret = Pending
    /\ call.fn = "_live_flight_changes"
    /\ ret' = _live_flight_changes(call.booking, call.env)
    /\ UNCHANGED <<settings, trips, bookings, trip_alerts, scan_vars, call, commits, applied,
                   handlers>>

CallLivePriceDrop ==
    /\ ret = Pending
    /\ call.fn = "_live_price_drop"
    /\ ret' = _live_price_drop(call.booking, call.original_price_usd, call.env)
    /\ UNCHANGED <<settings, trips, bookings, trip_alerts, scan_vars, call, commits, applied,
                   handlers>>

MonitorNext ==
    \/ CallLiveFlightChanges
    \/ CallLivePriceDrop

MonitorSpec == MonitorInit /\ [][MonitorNext]_vars

\* ------------------------------------------------------------------------
\* Pairs of mock detection calls (check_flight_changes / check_price_drops
\* without a provider credential, as the benchmark calls them)
\* ------------------------------------------------------------------------
\* carrier and flight number of the flights whose seeds are tabulated:
\* UA106 departure change, AA178 arrival change, WN1789 gate change and price
\* drop, UA103 price drop only, UA100 nothing
MockIdentities ==
    { <<Str(<<"U", "A">>), Str(<<"U", "A", "1", "0", "6">>)>>,
      <<Str(<<"A", "A">>), Str(<<"A", "A", "1", "7", "8">>)>>,
      <<Str(<<"W", "N">>), Str(<<"W", "N", "1", "7", "8", "9">>)>>,
      <<Str(<<"U", "A">>), Str(<<"U", "A", "1", "0", "3">>)>>,
      <<Str(<<"U", "A">>), Str(<<"U", "A", "1", "0", "0">>)>> }

\* 2026-06-15T10:30, 2026-07-01T08:00, no departure recorded, two departures
\* that are not ISO datetimes, the date 2026-06-15 without a time, null
MockDepartures ==
    {IsoDt(20790), IsoDt(43680), Missing, Str(<<"s", "o", "o", "n">>),
     Name("tomorrow"), IsoDate(14), Null}

MockFlights ==
    { FlightDetails(id[1], id[2], dep, Num(85000), Name("ECONOMY")) :
        id \in MockIdentities, dep \in MockDepartures }

MockCalls ==
    [fn : {"check_flight_changes"}, first : MockFlights, second : MockFlights,
     env : ProviderEnvs]
    \cup [fn : {"check_price_drops"}, first : MockFlights, second : MockFlights,
          env : ProviderEnvs, first_price : LivePrices, second_price : LivePrices]

MockInit ==
    /\ settings \in {c \in SettingsSet : c.amadeus_client_id = <<>>}
    /\ trips = <<>>
    /\ bookings = <<>>
    /\ ScanIdle
    /\ call \in MockCalls
    /\ ret = Pending
    /\ commits = 0
    /\ applied = 0
    /\ handlers = NoHandlers

\* two invocations of check_flight_changes, one after the other
CallMockFlightChanges ==
    /\ ret = Pending
    /\ call.fn = "check_flight_changes"
    /\ ret' = [first |-> check_flight_changes(settings, call.first, call.env),
               second |-> check_flight_changes(settings, call.second, call.env)]
    /\ UNCHANGED <<settings, trips, bookings, trip_alerts, scan_vars, call, commits, applied,
                   handlers>>

\* two invocations of check_price_drops, one after the other
CallMockPriceDrop ==
    /\ ret = Pending
    /\ call.fn = "check_price_drops"
    /\ ret' = [first |-> check_price_drops(settings, call.first, call.first_price, call.env),
               second |-> check_price_drops(settings, call.second, call.second_price, call.env)]
    /\ UNCHANGED <<settings, trips, bookings, trip_alerts, scan_vars, call, commits, applied,
                   handlers>>

MockNext ==
    \/ CallMockFlightChanges
    \/ CallMockPriceDrop

MockSpec == MockInit /\ [][MockNext]_vars

\* ------------------------------------------------------------------------
\* Calls of the parser on requests put together from phrases
\* ------------------------------------------------------------------------
\* quantity words with the number they stand for; -1 for a word that is
\* neither a number nor in the word table
Quantities ==
    { <<"0", 0>>, <<"1", 1>>, <<"2", 2>>, <<"3", 3>>, <<"10", 10>>, <<"12", 12>>,
      <<"one", 1>>, <<"two", 2>>, <<"three", 3>>, <<"four", 4>>, <<"five", 5>>,
      <<"six", 6>>, <<"seven", 7>>, <<"eight", 8>>, <<"nine", 9>>, <<"ten", 10>>,
      <<"a", 1>>, <<"an", 1>>, <<"several", -1>>, <<"eleven", -1>> }

Phrase(kind, words, quantity) == [kind |-> kind, words |-> words, quantity |-> quantity]

\* phrases of the documented and benchmarked requests, by the pattern they
\* are written for; "other" phrases are written for no pattern
Phrases ==
    { Phrase("extend", <<"extend", "my", "hotel", "by", q[1], "nights">>, q[2]) :
        q \in Quantities }
    \cup { Phrase("extend", <<"add", q[1], "more", "nights">>, q[2]) :
             q \in {<<"3", 3>>, <<"one", 1>>, <<"several", -1>>} }
    \cup { Phrase("extend", <<"Extend", "hotel", "stay", "by", "one", "night">>, 1),
           Phrase("extend", <<"extend", "my", "nights">>, -1) }
    \cup { Phrase("shorten", <<"reduce", "hotel", "stay", "by", q[1], "nights">>, q[2]) :
             q \in Quantities }
    \cup { Phrase("shorten", <<"shorten", "my", "hotel", "by", "1", "night">>, 1),
           Phrase("shorten", <<"cut", "a", "night">>, 1) }
    \cup { Phrase("cabin", <<"upgrade", "to", "business", "class">>, 0),
           Phrase("cabin", <<"first", "class">>, 0),
           Phrase("cabin", <<"premium", "economy">>, 0) }
    \cup { Phrase("room", <<"upgrade", "my", "room", "to", "a", "suite">>, 0),
           Phrase("room", <<"upgrade", "my", "hotel", "room">>, 0),
           Phrase("room", <<"king", "room">>, 0),
           Phrase("room", <<"better", "room">>, 0) }
    \cup { Phrase("other", <<"cancel", "my", "trip">>, 0),
           Phrase("other", <<"please">>, 0),
           Phrase("other", <<"for", "two", "more", "people">>, 0) }

PhraseLists == UNION { [1..n -> Phrases] : n \in 0..MaxPhrases }

RECURSIVE RequestText(_)
RequestText(phrases) ==
    IF phrases = <<>> THEN <<>>
    ELSE Head(phrases).words \o RequestText(Tail(phrases))

ParseCalls ==
    [fn : {"_parse_modification_request"}, phrases : PhraseLists]
    \cup [fn : {"_word_to_int"}, quantity : Quantities]

ParseInit ==
    /\ settings \in {c \in SettingsSet : c.booking_mock_mode}
    /\ trips = <<>>
    /\ bookings = <<>>
    /\ ScanIdle
    /\ call \in ParseCalls
    /\ ret = Pending
    /\ commits = 0
    /\ applied = 0
    /\ handlers = NoHandlers

\* parsed = _parse_modification_request(request)
ParseRequest ==
    /\ ret = Pending
    /\ call.fn = "_parse_modification_request"
    /\ ret' = Returned(_parse_modification_request(RequestText(call.phrases)))
    /\ UNCHANGED <<settings, trips, bookings, trip_alerts, scan_vars, call, commits, applied,
                   handlers>>

\* nights = _word_to_int(m.group(1))
WordToInt ==
    /\ ret = Pending
    /\ call.fn = "_word_to_int"
    /\ ret' = Returned(_word_to_int(call.quantity[1]))
    /\ UNCHANGED <<settings, trips, bookings, trip_alerts, scan_vars, call, commits, applied,
                   handlers>>

ParseNext ==
    \/ ParseRequest
    \/ WordToInt

ParseSpec == ParseInit /\ [][ParseNext]_vars

\* ------------------------------------------------------------------------
\* Overlapping scans: several runs of the loop body of
\* _async_scan_confirmed_trips (lines 47-116), each with a session of its
\* own, over the same tables
\* ------------------------------------------------------------------------
\* position and locals of the single scan of Spec, idle while scans overlap
single_scan_vars ==
    <<pc, session, confirmed_trips, tIdx, flight_bookings, bIdx, new_alerts, exc,
      cancel_requested,
      cycle, outcome, propagated, scanned, found, alerts_before, failed_trip,
      produced, failed_before, checked, priced>>

\* the confirmed flight bookings of trip t
ConfirmedFlights(t) ==
    SelectSeq(bookings, LAMBDA b : b.trip_id = t /\ b.type = "flight"
                                   /\ b.status = "confirmed")

\* every trip is confirmed and has an owner, and holds at most one confirmed
\* flight booking
OverlapInit ==
    /\ settings \in {c \in SettingsSet : c.booking_mock_mode = (c.amadeus_client_id = <<>>)}
    /\ trips \in {t \in TripTables : \A i \in 1..Len(t) : t[i].user_id \in UserIds
                                                         /\ t[i].status = "confirmed"}
    /\ bookings \in {b \in BookingTables(FlightTemplates \cup ScanHotelTemplates, MaxBookings) :
                        \A t \in TripIds :
                           Len(SelectSeq(b, LAMBDA r : r.trip_id = t /\ r.type = "flight"
                                                       /\ r.status = "confirmed")) <= 1}
    /\ ScanIdle
    /\ call = NoCall
    /\ ret = Pending
    /\ commits = 0
    /\ applied = 0
    /\ handlers = NoHandlers

WorkerFlight(w) ==
    LET details == Or(workers[w].flight_bookings[workers[w].bIdx].details, EmptyDetails)
    IN  Get(details, "flight", EmptyFlight)

\* the exception ends the scan of worker w; finally: db.close()
WorkerFail(w) == workers' = [workers EXCEPT ![w] = [IdleWorker EXCEPT !.pc = "failed"]]

\* for trip in confirmed_trips: the user and flight_bookings queries, either
\* of which can raise; new_alerts = []
WorkerNextTrip(w) ==
    /\ workers[w].pc = "idle"
    /\ \E t \in {trips[i].id : i \in {j \in 1..Len(trips) :
                                         /\ trips[j].status = "confirmed"
                                         /\ trips[j].user_id \in UserIds}},
          queries_ok \in BOOLEAN :
         LET fb == ConfirmedFlights(t)
         IN  IF ~queries_ok THEN WorkerFail(w)
             ELSE workers' = [workers EXCEPT ![w] =
                            [pc |-> IF fb = <<>> THEN "done" ELSE "changes",
                             trip_id |-> t, flight_bookings |-> fb, bIdx |-> 1,
                             new_alerts |-> <<>>]]
    /\ UNCHANGED <<settings, trips, bookings, trip_alerts, emails, call_vars,
                   single_scan_vars>>

\* the dedup loop of worker w over the changes found (lines 70-78)
WorkerDedupChanges(w, changes) ==
    IF IsRaised(changes) THEN WorkerFail(w)
    ELSE \E looked_up \in LookupsDone(changes.returned) :
         IF looked_up < Len(changes.returned) THEN WorkerFail(w)
         ELSE workers' = [workers EXCEPT
                 ![w].new_alerts = AddNewAlerts(trip_alerts, workers[w].new_alerts,
                                                workers[w].trip_id, changes.returned),
                 ![w].pc = "price"]

\* changes = await check_flight_changes(flight), then the dedup loop
WorkerCheckChanges(w) ==
    /\ workers[w].pc = "changes"
    /\ \E env \in ScanEnvs :
         WorkerDedupChanges(w, check_flight_changes(settings, WorkerFlight(w), env))
    /\ UNCHANGED <<settings, trips, bookings, trip_alerts, emails, call_vars,
                   single_scan_vars>>

\* original_price = float(flight.get("price_usd", 0) or 0)
WorkerOriginalPrice(w) ==
    IF ~IsDict(WorkerFlight(w)) THEN Raised("AttributeError")
    ELSE Float(Or(Get(WorkerFlight(w), "price_usd", Num(0)), Num(0)))

\* the dedup loop of worker w over the price drops found (lines 85-94),
\* then the next booking
WorkerDedupDrops(w, original_price, drops) ==
    IF IsRaised(original_price) \/ IsRaised(drops) THEN WorkerFail(w)
    ELSE \E looked_up \in LookupsDone(drops.returned) :
         IF looked_up < Len(drops.returned) THEN WorkerFail(w)
         ELSE workers' = [workers EXCEPT
                 ![w].new_alerts = AddNewAlerts(trip_alerts, workers[w].new_alerts,
                                                workers[w].trip_id, drops.returned),
                 ![w].bIdx = workers[w].bIdx + 1,
                 ![w].pc = IF workers[w].bIdx + 1 > Len(workers[w].flight_bookings)
                           THEN "commit" ELSE "changes"]

\* if original_price > 0: drops = await check_price_drops(flight, original_price)
WorkerPriceDrops(w, original_price, env) ==
    WorkerDedupDrops(w, original_price,
                     IF ~IsRaised(original_price) /\ original_price.n > 0
                     THEN check_price_drops(settings, WorkerFlight(w),
                                            original_price.n, env)
                     ELSE Returned(<<>>))

\* the price of the booking, the price-drop check and its dedup loop
WorkerCheckPrice(w) ==
    /\ workers[w].pc = "price"
    /\ \E env \in ScanEnvs : WorkerPriceDrops(w, WorkerOriginalPrice(w), env)
    /\ UNCHANGED <<settings, trips, bookings, trip_alerts, emails, call_vars,
                   single_scan_vars>>

\* if new_alerts: db.commit()
WorkerCommit(w) ==
    /\ workers[w].pc = "commit"
    /\ IF workers[w].new_alerts = <<>>
       THEN /\ workers' = [workers EXCEPT ![w] = [IdleWorker EXCEPT !.pc = "done"]]
            /\ UNCHANGED trip_alerts
       ELSE \E commit_ok \in BOOLEAN :
            IF ~commit_ok
            THEN /\ WorkerFail(w)
                 /\ UNCHANGED trip_alerts
            ELSE /\ trip_alerts' = db_commit(trip_alerts, workers[w].new_alerts)
                 /\ workers' = [workers EXCEPT ![w].pc = "refresh"]
    /\ UNCHANGED <<settings, trips, bookings, emails, call_vars, single_scan_vars>>

\* for alert in new_alerts: db.refresh(alert) -- a refresh of a row just
\* committed can fail
WorkerRefresh(w) ==
    /\ workers[w].pc = "refresh"
    /\ \E refresh_ok \in BOOLEAN :
         IF refresh_ok
         THEN workers' = [workers EXCEPT ![w].pc = "notify"]
         ELSE WorkerFail(w)
    /\ UNCHANGED <<settings, trips, bookings, trip_alerts, emails, call_vars,
                   single_scan_vars>>

\* the best-effort e-mail about the new alerts of the trip of worker w
WorkerNotify(w) ==
    /\ workers[w].pc = "notify"
    /\ \E args_ok \in BOOLEAN, delivery_ok \in BOOLEAN :
         emails' = Append(emails,
            [trip_id |-> workers[w].trip_id,
             alerts |-> EmailAlerts(workers[w].new_alerts),
             result |-> IF ~args_ok THEN "raised"
                        ELSE send_alert_email(settings, delivery_ok)])
    /\ workers' = [workers EXCEPT ![w] = [IdleWorker EXCEPT !.pc = "done"]]
    /\ UNCHANGED <<settings, trips, bookings, trip_alerts, call_vars, single_scan_vars>>

OverlapNext ==
    \E w \in Workers :
        \/ WorkerNextTrip(w)
        \/ WorkerCheckChanges(w)
        \/ WorkerCheckPrice(w)
        \/ WorkerCommit(w)
        \/ WorkerRefresh(w)
        \/ WorkerNotify(w)

OverlapSpec == OverlapInit /\ [][OverlapNext]_vars

\* ------------------------------------------------------------------------
\* The modification service applied to the bookings of one trip
\* ------------------------------------------------------------------------
FlightNullCabin ==
    FlightDetails(Str(<<"U", "A">>), Str(<<"U", "A", "1", "0", "3">>),
                  IsoDt(20790), Num(72000), Null)

\* a fare class that is not one of the four cabins
FlightBasicEconomy ==
    FlightDetails(Str(<<"U", "A">>), Str(<<"U", "A", "1", "0", "3">>),
                  IsoDt(20790), Num(72000), Name("BASIC_ECONOMY"))

\* a cabin stored as an object
FlightDictCabin ==
    FlightDetails(Str(<<"U", "A">>), Str(<<"U", "A", "1", "0", "3">>),
                  IsoDt(20790), Num(72000), [code |-> Name("J")])

ModHotel(status, hotel) ==
    [type |-> "hotel", status |-> status, details |-> [flight |-> Missing, hotel |-> hotel]]

ModFlight(status, flight) ==
    [type |-> "flight", status |-> status, details |-> [flight |-> flight, hotel |-> Missing]]

\* hotels: a one-night stay, a stay without price, an unparseable and a null
\* check-out, a null price, no details, a missing check-in, and a stay that
\* is not confirmed; flights: no cabin recorded, business class, a null
\* cabin, a cabin outside the premium table, a cabin that is an object, and
\* a null flight
ModTemplates ==
    { ModHotel("confirmed", HotelDetails(IsoDate(14), IsoDate(15), Num(42000))),
      ModHotel("confirmed", HotelDetails(IsoDate(14), IsoDate(17), Missing)),
      ModHotel("confirmed", HotelDetails(IsoDate(14), Str(<<"s", "o", "o", "n">>), Num(42000))),
      ModHotel("confirmed", HotelDetails(IsoDate(14), Null, Num(42000))),
      ModHotel("confirmed", HotelDetails(IsoDate(14), IsoDate(16), Null)),
      [type |-> "hotel", status |-> "confirmed", details |-> Null],
      ModHotel("confirmed", HotelDetails(Missing, IsoDate(17), Num(42000))),
      ModHotel("pending", HotelDetails(IsoDate(14), IsoDate(17), Num(42000))),
      ModFlight("confirmed", FlightUA106),
      ModFlight("confirmed", FlightWN1789),
      ModFlight("confirmed", FlightNullCabin),
      ModFlight("confirmed", FlightBasicEconomy),
      ModFlight("confirmed", FlightDictCabin),
      ModFlight("confirmed", Null) }

ModBookingTables ==
    {b \in BookingTables(ModTemplates, MaxBookings) : \A i \in 1..Len(b) : b[i].trip_id = 1}

Cabins == {"ECONOMY", "PREMIUM_ECONOMY", "BUSINESS", "FIRST"}

ModInit ==
    /\ settings \in {c \in SettingsSet : c.amadeus_client_id = <<>>}
    /\ trips \in {t \in TripTables : \A i \in 1..Len(t) : t[i].user_id \in UserIds
                                                         /\ t[i].status = "confirmed"}
    /\ bookings \in ModBookingTables
    /\ ScanIdle
    /\ call = NoCall
    /\ ret = Pending
    /\ commits = 0
    /\ applied = 0
    /\ handlers = NoHandlers

\* await apply_modification(trip, bookings, request, db)
ApplyModification ==
    /\ applied < MaxRequests
    /\ \E request \in Requests :
         LET out == apply_modification(settings, bookings, request)
         IN  /\ call' = [fn |-> "apply_modification", request |-> request]
             /\ ret' = out.ret
             /\ bookings' = out.bookings
             /\ commits' = commits + out.commits
    /\ applied' = applied + 1
    /\ UNCHANGED <<settings, trips, trip_alerts, scan_vars, handlers>>

\* await _modify_seat_upgrade(trip, bookings, cabin, db)
ModifySeatUpgrade ==
    /\ applied < MaxRequests
    /\ \E cabin \in Cabins :
         LET out == _modify_seat_upgrade(settings, bookings, cabin)
         IN  /\ call' = [fn |-> "_modify_seat_upgrade", cabin |-> cabin]
             /\ ret' = out.ret
             /\ bookings' = out.bookings
             /\ commits' = commits + out.commits
    /\ applied' = applied + 1
    /\ UNCHANGED <<settings, trips, trip_alerts, scan_vars, handlers>>

ModNext ==
    \/ ApplyModification
    \/ ModifySeatUpgrade

ModSpec == ModInit /\ [][ModNext]_vars

\* ------------------------------------------------------------------------
\* Modification requests in flight at the same time
\* ------------------------------------------------------------------------
\* Each request is served with the booking objects its own session loaded
\* before apply_modification is called; the handler works on those objects
\* and its db.commit() writes the rows whose details it replaced.

\* db.commit() of a session: UPDATE of the rows whose details were assigned
Flush(stored, loaded, changed) ==
    [i \in DOMAIN stored |-> IF changed[i] # loaded[i] THEN changed[i] ELSE stored[i]]

InFlightInit ==
    /\ settings \in {c \in SettingsSet : c.amadeus_client_id = <<>>}
    /\ trips \in {t \in TripTables : \A i \in 1..Len(t) : t[i].user_id \in UserIds
                                                         /\ t[i].status = "confirmed"}
    /\ bookings \in ModBookingTables
    /\ ScanIdle
    /\ call = [fn |-> "stored", bookings |-> bookings]
    /\ ret = Pending
    /\ commits = 0
    /\ applied = 0
    /\ handlers = NoHandlers

\* the caller of apply_modification: bookings = db.query(Booking)...all()
HandlerLoad(w) ==
    /\ handlers[w].pc = "load"
    /\ \E request \in Requests :
         handlers' = [handlers EXCEPT ![w] = [pc |-> "apply", request |-> request,
                                              loaded |-> bookings, ret |-> Pending]]
    /\ UNCHANGED <<settings, trips, bookings, trip_alerts, scan_vars, call, ret,
                   commits, applied>>

\* await apply_modification(trip, bookings, request, db) on the loaded objects
HandlerApply(w) ==
    /\ handlers[w].pc = "apply"
    /\ LET out == apply_modification(settings, handlers[w].loaded, handlers[w].request)
       IN  /\ handlers' = [handlers EXCEPT ![w].pc = "done", ![w].ret = out.ret]
           /\ bookings' = IF out.commits > 0
                          THEN Flush(bookings, handlers[w].loaded, out.bookings)
                          ELSE bookings
           /\ commits' = commits + out.commits
    /\ applied' = applied + 1
    /\ UNCHANGED <<settings, trips, trip_alerts, scan_vars, call, ret>>

InFlightNext ==
    \E w \in Workers :
        \/ HandlerLoad(w)
        \/ HandlerApply(w)

InFlightSpec == InFlightInit /\ [][InFlightNext]_vars

\* ------------------------------------------------------------------------
\* Trip request parser: the rule-based fallback (app/services/trip_parser.py)
\* ------------------------------------------------------------------------
\* the years the modelled dates fall in
CalendarYears == 2026..2032

\* date.fromordinal(n) as <<year, month, day>>
Ord2Ymd(n) ==
    LET year == CHOOSE y \in CalendarYears :
                    DaysBeforeYear(y) < n /\ n <= DaysBeforeYear(y + 1)
        rest == n - DaysBeforeYear(year)
        month == CHOOSE m \in 1..12 :
                     /\ DaysBeforeMonth(year, m) < rest
                     /\ rest <= DaysBeforeMonth(year, m) + DaysInMonth(year, m)
    IN  <<year, month, rest - DaysBeforeMonth(year, month)>>

\* date.weekday(): Monday is 0, Friday is 4
Weekday(n) == (n + 6) % 7

DigitChars == <<"0", "1", "2", "3", "4", "5", "6", "7", "8", "9">>

\* the decimal digits of n, zero-padded to width characters
RECURSIVE ZeroPadded(_, _)
ZeroPadded(n, width) ==
    IF width = 0 THEN <<>>
    ELSE Append(ZeroPadded(n \div 10, width - 1), DigitChars[(n % 10) + 1])

\* date.isoformat(): the characters of YYYY-MM-DD
isoformat(n) ==
    LET ymd == Ord2Ymd(n)
    IN  ZeroPadded(ymd[1], 4) \o <<"-">> \o ZeroPadded(ymd[2], 2)
            \o <<"-">> \o ZeroPadded(ymd[3], 2)

\* date.fromisoformat(s).toordinal() of a string isoformat produced
fromisoformat(s) ==
    Ymd2Ord(DigitsValue(SubSeq(s, 1, 4)), DigitsValue(SubSeq(s, 6, 7)),
            DigitsValue(SubSeq(s, 9, 10)))

\* d = date(year, month, 1); while d.weekday() != 4: d += timedelta(days=1)
RECURSIVE NextFriday(_)
NextFriday(d) == IF Weekday(d) = 4 THEN d ELSE NextFriday(d + 1)

_first_friday_of_month(year, month) == NextFriday(Ymd2Ord(year, month, 1))

\* _MONTH_NAMES in the order of the dictionary: name and month number
_MONTH_NAMES ==
    << <<<<"j", "a", "n", "u", "a", "r", "y">>, 1>>, <<<<"j", "a", "n">>, 1>>,
       <<<<"f", "e", "b", "r", "u", "a", "r", "y">>, 2>>, <<<<"f", "e", "b">>, 2>>,
       <<<<"m", "a", "r", "c", "h">>, 3>>, <<<<"m", "a", "r">>, 3>>,
       <<<<"a", "p", "r", "i", "l">>, 4>>, <<<<"a", "p", "r">>, 4>>,
       <<<<"m", "a", "y">>, 5>>,
       <<<<"j", "u", "n", "e">>, 6>>, <<<<"j", "u", "n">>, 6>>,
       <<<<"j", "u", "l", "y">>, 7>>, <<<<"j", "u", "l">>, 7>>,
       <<<<"a", "u", "g", "u", "s", "t">>, 8>>, <<<<"a", "u", "g">>, 8>>,
       <<<<"s", "e", "p", "t", "e", "m", "b", "e", "r">>, 9>>, <<<<"s", "e", "p">>, 9>>,
       <<<<"s", "e", "p", "t">>, 9>>,
       <<<<"o", "c", "t", "o", "b", "e", "r">>, 10>>, <<<<"o", "c", "t">>, 10>>,
       <<<<"n", "o", "v", "e", "m", "b", "e", "r">>, 11>>, <<<<"n", "o", "v">>, 11>>,
       <<<<"d", "e", "c", "e", "m", "b", "e", "r">>, 12>>, <<<<"d", "e", "c">>, 12>> >>

\* A trip request is a sequence of words, each a sequence of characters,
\* standing for the words joined by single blanks.
UpperLetters ==
    <<"A", "B", "C", "D", "E", "F", "G", "H", "I", "J", "K", "L", "M",
      "N", "O", "P", "Q", "R", "S", "T", "U", "V", "W", "X", "Y", "Z">>

LowerLetters ==
    <<"a", "b", "c", "d", "e", "f", "g", "h", "i", "j", "k", "l", "m",
      "n", "o", "p", "q", "r", "s", "t", "u", "v", "w", "x", "y", "z">>

\* str.lower() of a character
LowerChar(c) ==
    IF \E k \in 1..26 : UpperLetters[k] = c
    THEN LowerLetters[CHOOSE k \in 1..26 : UpperLetters[k] = c]
    ELSE c

\* raw_request.lower()
LowerText(raw_request) ==
    [i \in 1..Len(raw_request) |->
        [p \in 1..Len(raw_request[i]) |-> LowerChar(raw_request[i][p])]]

\* [a-z]
IsLetter(c) == \E k \in 1..26 : LowerLetters[k] = c

\* \d
IsDigit(c) == Digit(c) >= 0

\* \w, on the lowered text
IsWordChar(c) == IsLetter(c) \/ IsDigit(c) \/ c = "_"

\* word starts with the characters of prefix at position p
HasAt(word, p, prefix) ==
    /\ p + Len(prefix) - 1 <= Len(word)
    /\ SubSeq(word, p, p + Len(prefix) - 1) = prefix

\* name in text
InText(text, name) ==
    \E i \in 1..Len(text) : \E p \in 1..Len(text[i]) : HasAt(text[i], p, name)

\* for month_name, month_num in _MONTH_NAMES.items(): if month_name in text:
\* the number of the first name of the dictionary the text holds, 0 if none
MonthInText(text) ==
    LET hits == {k \in 1..Len(_MONTH_NAMES) : InText(text, _MONTH_NAMES[k][1])}
    IN  IF hits = {} THEN 0
        ELSE _MONTH_NAMES[CHOOSE k \in hits : \A h \in hits : k <= h][2]

\* year = today.year; if month_num < today.month or (month_num ==
\* today.month and today.day > 15): year += 1
MonthYear(month_num, today_ymd) ==
    IF month_num < today_ymd[2] \/ (month_num = today_ymd[2] /\ today_ymd[3] > 15)
    THEN today_ymd[1] + 1
    ELSE today_ymd[1]

\* (jan|feb|mar|apr|may|jun|jul|aug|sep|oct|nov|dec)
MonthAbbreviations ==
    {_MONTH_NAMES[k][1] : k \in {h \in 1..Len(_MONTH_NAMES) : Len(_MONTH_NAMES[h][1]) = 3}}

\* (\d{1,2})\b at the start of a word: two digits when a word boundary
\* follows them, else one digit when a word boundary follows it, else <<>>
DayDigits(word) ==
    IF /\ Len(word) >= 2 /\ IsDigit(word[1]) /\ IsDigit(word[2])
       /\ (Len(word) = 2 \/ ~IsWordChar(word[3]))
    THEN SubSeq(word, 1, 2)
    ELSE IF /\ Len(word) >= 1 /\ IsDigit(word[1])
            /\ (Len(word) = 1 \/ ~IsWordChar(word[2]))
    THEN SubSeq(word, 1, 1)
    ELSE <<>>

\* \b(jan|...|dec)[a-z]*\.?\s+(\d{1,2})\b matched from character p of word i
DateMatchesAt(text, i, p) ==
    LET word == text[i]
    IN  /\ i < Len(text)
        /\ p = 1 \/ ~IsWordChar(word[p - 1])
        /\ \E abbr \in MonthAbbreviations : HasAt(word, p, abbr)
        /\ \A k \in (p + 3)..Len(word) :
              IsLetter(word[k]) \/ (k = Len(word) /\ word[k] = ".")
        /\ DayDigits(text[i + 1]) # <<>>

\* re.search of that pattern: <<group(1), group(2)>> of the leftmost match,
\* <<>> when there is none
SearchDate(text) ==
    LET at == {ip \in UNION {{<<i, p>> : p \in 1..Len(text[i])} : i \in 1..Len(text)} :
                 DateMatchesAt(text, ip[1], ip[2])}
    IN  IF at = {} THEN <<>>
        ELSE LET first == CHOOSE t \in at :
                             \A u \in at : t[1] < u[1] \/ (t[1] = u[1] /\ t[2] <= u[2])
             IN  <<SubSeq(text[first[1]], first[2], first[2] + 2),
                   DayDigits(text[first[1] + 1])>>

\* _MONTH_NAMES.get(name): the month number, 0 for None
MonthNumber(name) ==
    IF \E k \in 1..Len(_MONTH_NAMES) : _MONTH_NAMES[k][1] = name
    THEN _MONTH_NAMES[CHOOSE k \in 1..Len(_MONTH_NAMES) : _MONTH_NAMES[k][1] = name][2]
    ELSE 0

\* the digits a word ends with
RECURSIVE TrailingDigits(_)
TrailingDigits(word) ==
    IF word = <<>> \/ ~IsDigit(word[Len(word)]) THEN <<>>
    ELSE Append(TrailingDigits(SubSeq(word, 1, Len(word) - 1)), word[Len(word)])

\* re.search(r"(\d+)\s+days?", text) and re.search(r"(\d+)\s+weeks?", text):
\* group(1) of the leftmost match, <<>> when there is none
SearchDuration(text, unit) ==
    LET at == {i \in 1..(Len(text) - 1) :
                 TrailingDigits(text[i]) # <<>> /\ HasAt(text[i + 1], 1, unit)}
    IN  IF at = {} THEN <<>>
        ELSE TrailingDigits(text[CHOOSE i \in at : \A j \in at : i <= j])

\* a weeks duration taken before a days duration
DurationWeeksFirst(days_match, weeks_match) ==
    IF weeks_match # <<>> THEN Num(DigitsValue(weeks_match) * 7)
    ELSE IF days_match # <<>> THEN Num(DigitsValue(days_match))
    ELSE Null

\* if days_match: duration_days = int(days_match.group(1))
\* elif weeks_match: duration_days = int(weeks_match.group(1)) * 7
DurationDays(days_match, weeks_match) ==
    IF days_match # <<>> THEN Num(DigitsValue(days_match))
    ELSE IF weeks_match # <<>> THEN Num(DigitsValue(weeks_match) * 7)
    ELSE Null

\* ([\d,]+) from character p of a word: the digits and commas that follow
RECURSIVE DigitsAndCommas(_, _)
DigitsAndCommas(word, p) ==
    IF p > Len(word) \/ ~(IsDigit(word[p]) \/ word[p] = ",") THEN <<>>
    ELSE <<word[p]>> \o DigitsAndCommas(word, p + 1)

\* \$[\s]?([\d,]+) matched at character p of word i: group(1), <<>> when
\* the pattern does not match there
DollarAt(text, i, p) ==
    IF text[i][p] # "$" THEN <<>>
    ELSE IF p < Len(text[i]) THEN DigitsAndCommas(text[i], p + 1)
    ELSE IF i < Len(text) THEN DigitsAndCommas(text[i + 1], 1)
    ELSE <<>>

\* under\s+([\d,]+) matched at character p of word i
UnderAt(text, i, p) ==
    IF HasAt(text[i], p, <<"u", "n", "d", "e", "r">>) /\ p + 4 = Len(text[i])
       /\ i < Len(text)
    THEN DigitsAndCommas(text[i + 1], 1)
    ELSE <<>>

\* the positions of the text, character p of word i being <<i, p>>
Positions(text) == UNION {{<<i, p>> : p \in 1..Len(text[i])} : i \in 1..Len(text)}

\* the leftmost of a set of positions
Leftmost(at) ==
    CHOOSE t \in at : \A u \in at : t[1] < u[1] \/ (t[1] = u[1] /\ t[2] <= u[2])

\* lines 185-191: group(1) of the budget match, that of the dollar pattern
\* or else that of the "under" pattern; <<>> when neither matches
SearchBudget(text) ==
    LET dollars == {ip \in Positions(text) : DollarAt(text, ip[1], ip[2]) # <<>>}
        unders == {ip \in Positions(text) : UnderAt(text, ip[1], ip[2]) # <<>>}
    IN  IF dollars # {}
        THEN DollarAt(text, Leftmost(dollars)[1], Leftmost(dollars)[2])
        ELSE IF unders # {}
        THEN UnderAt(text, Leftmost(unders)[1], Leftmost(unders)[2])
        ELSE <<>>

\* what the searches of _parse_with_rules find in the lowered text
ScanText(raw_request) ==
    LET text == LowerText(raw_request)
    IN  [month_num |-> MonthInText(text),
         date_match |-> SearchDate(text),
         days_match |-> SearchDuration(text, <<"d", "a", "y">>),
         weeks_match |-> SearchDuration(text, <<"w", "e", "e", "k">>),
         budget_match |-> SearchBudget(text)]

\* the result dictionary of the parser, the keys depart_date and
\* return_date; the other keys are computed from the text alone and none
\* of them is read by the code that computes these two (the budget can
\* make the call raise, see WithBudget)
ParsedTrip(depart_date, return_date) ==
    [depart_date |-> depart_date, return_date |-> return_date]

\* lines 170-181: the duration and the return date
WithReturnDate(matches, depart_date) ==
    LET duration_days == DurationDays(matches.days_match, matches.weeks_match)
    IN  IF Truthy(depart_date) /\ Truthy(duration_days)
        THEN LET dep == fromisoformat(depart_date.chars)
             IN  IF dep + duration_days.n > MaxOrdinal THEN Raised("OverflowError")
                 ELSE Returned(ParsedTrip(depart_date,
                                        Str(isoformat(dep + duration_days.n))))
        ELSE Returned(ParsedTrip(depart_date, Null))

\* lines 144-181: the departure and the return date, given what the
\* searches found in the text
DatesFound(matches, today) ==
    LET today_ymd == Ord2Ymd(today)
        month_date ==
            IF matches.month_num = 0 THEN Null
            ELSE Str(isoformat(_first_friday_of_month(
                         MonthYear(matches.month_num, today_ymd), matches.month_num)))
    IN  IF matches.date_match = <<>> THEN WithReturnDate(matches, month_date)
        ELSE LET month_num == MonthNumber(matches.date_match[1])
                 day == DigitsValue(matches.date_match[2])
                 year == today_ymd[1]
             IN  IF month_num = 0 THEN WithReturnDate(matches, month_date)
                 ELSE IF ~ValidDate(year, month_num, day) THEN Raised("ValueError")
                 ELSE IF Ymd2Ord(year, month_num, day) >= today
                 THEN WithReturnDate(matches, Str(isoformat(Ymd2Ord(year, month_num, day))))
                 ELSE IF ~ValidDate(year + 1, month_num, day) THEN Raised("ValueError")
                 ELSE WithReturnDate(matches,
                                     Str(isoformat(Ymd2Ord(year + 1, month_num, day))))


\* int(budget_match.group(1).replace(",", "")): ValueError when the group
\* holds commas only
BudgetTotal(group) ==
    IF SelectSeq(group, IsDigit) = <<>> THEN Raised("ValueError")
    ELSE Returned(DigitsValue(SelectSeq(group, IsDigit)))

\* lines 183-191: the budget, computed after the dates
WithBudget(matches, trip) ==
    IF IsRaised(trip) THEN trip
    ELSE IF matches.budget_match # <<>> /\ IsRaised(BudgetTotal(matches.budget_match))
    THEN BudgetTotal(matches.budget_match)
    ELSE trip

\* _parse_with_rules(raw_request) on the day today, given what the searches
\* found in the text
ParseFound(matches, today) == WithBudget(matches, DatesFound(matches, today))

\* ------------------------------------------------------------------------
\* Calls of the rule-based trip parser
\* ------------------------------------------------------------------------
\* number of duration and other phrases after the date phrase of a request
MaxTripPhrases == 2

\* the days date.today() is drawn from: 2027-12-01 and the days after it,
\* through the leap year 2028
FirstToday == Ymd2Ord(2027, 12, 1)

MaxTodays == 397

Todays == FirstToday..(FirstToday + MaxTodays - 1)

\* the phrases that say when the trip starts: a month, or a month and a day
WhenPhrases ==
    { Phrase("month", << <<"i", "n">>, <<"O", "c", "t", "o", "b", "e", "r">> >>, 10),
      Phrase("month", << <<"i", "n">>, <<"J", "u", "l", "y", ",">> >>, 7),
      Phrase("month", << <<"j", "u", "n", "e">> >>, 6),
      Phrase("month", << <<"m", "a", "y", "b", "e">> >>, 5),
      Phrase("date", << <<"O", "c", "t">>, <<"1", "5">> >>, 15),
      Phrase("date", << <<"f", "e", "b", "r", "u", "a", "r", "y">>, <<"2", "9">> >>, 29),
      Phrase("date", << <<"j", "a", "n", ".">>, <<"5", ",">> >>, 5) }

\* the phrases that follow: a duration in days or in weeks, or neither (a
\* destination, a budget without digits)
TailPhrases ==
    { Phrase("days", << <<"1", "0">>, <<"d", "a", "y", "s">> >>, 10),
      Phrase("days", << <<"0">>, <<"d", "a", "y", "s">> >>, 0),
      Phrase("weeks", << <<"2">>, <<"w", "e", "e", "k", "s", ",">> >>, 2),
      Phrase("weeks", << <<"1">>, <<"w", "e", "e", "k">> >>, 1),
      Phrase("other", << <<"t", "o">>, <<"t", "o", "k", "y", "o">> >>, 0),
      Phrase("other", << <<"u", "n", "d", "e", "r">>, <<"$", ",">> >>, 0) }

TripPhraseLists ==
    { when \o tail :
        when \in {<<>>} \cup {<<p>> : p \in WhenPhrases},
        tail \in UNION { [1..n -> TailPhrases] : n \in 0..MaxTripPhrases } }

TripRequests == {RequestText(phrases) : phrases \in TripPhraseLists}

\* what the searches find in the requests the model sends, computed once
ScannedRequests == [r \in TripRequests |-> ScanText(r)]

scanned_request(raw_request) ==
    IF raw_request \in TripRequests THEN ScannedRequests[raw_request]
    ELSE ScanText(raw_request)

\* _parse_with_rules(raw_request) on the day date.today() returns today
_parse_with_rules(raw_request, today) ==
    ParseFound(scanned_request(raw_request), today)

TripCalls == [fn : {"_parse_with_rules"}, phrases : TripPhraseLists, today : Todays]

TripInit ==
    /\ settings \in {c \in SettingsSet : c.booking_mock_mode}
    /\ trips = <<>>
    /\ bookings = <<>>
    /\ ScanIdle
    /\ call \in TripCalls
    /\ ret = Pending
    /\ commits = 0
    /\ applied = 0
    /\ handlers = NoHandlers

\* parsed = _parse_with_rules(raw_request)
ParseTrip ==
    /\ ret = Pending
    /\ call.fn = "_parse_with_rules"
    /\ ret' = _parse_with_rules(RequestText(call.phrases), call.today)
    /\ UNCHANGED <<settings, trips, bookings, trip_alerts, scan_vars, call, commits,
                   applied, handlers>>

TripNext == ParseTrip

TripParseSpec == TripInit /\ [][TripNext]_vars

\* the provider did not deliver usable data: the token or the data request
\* failed, the status is not 200, the body has no data, or the payload the
\* function reads is absent or of the wrong type
ProviderFailed(c) ==
    \/ c.env.token # "ok"
    \/ c.env.request # "ok"
    \/ c.env.status # 200
    \/ c.env.shape # "data"
    \/ c.fn = "_live_flight_changes" /\ c.env.actual.tag # "isodt"
    \/ /\ c.fn = "_live_price_drop"
       /\ \/ \E i \in 1..Len(c.env.offers) :
                c.env.offers[i] # Missing /\ IsRaised(Float(c.env.offers[i]))
          \/ \A i \in 1..Len(c.env.offers) : c.env.offers[i] = Missing

\* C10: a live detection call never raises, and returns no candidate when
\* the provider failed or its data is missing or malformed
C10_LiveDetectionFailsSafe ==
    ret # Pending =>
        /\ ~IsRaised(ret)
        /\ ProviderFailed(call) => ret = Returned(<<>>)

\* ------------------------------------------------------------------------
\* Properties of the scanner
\* ------------------------------------------------------------------------
\* rows persisted for trip t since the running (or last) cycle started
RowsAdded(t) ==
    SelectSeq(SubSeq(trip_alerts, alerts_before + 1, Len(trip_alerts)),
              LAMBDA r : r.trip_id = t)

KeyCount(k) == Cardinality({i \in 1..Len(trip_alerts) : AlertKey(trip_alerts[i]) = k})

\* trips the loop of a cycle has to process: confirmed, with an owner
ScannableTrips ==
    {trips[i].id : i \in {j \in 1..Len(trips) :
                            trips[j].status = "confirmed" /\ trips[j].user_id \in UserIds}}

\* C1: after scan cycles that ran to their end, every candidate the cycles
\* produced for a trip is persisted in exactly one alert row
C1_ExactlyOneRowPerCandidate ==
    (pc = "idle" /\ outcome = "ok") => \A k \in produced : KeyCount(k) = 1

\* C2: no two persisted alerts of one trip share (alert_type, message)
C2_AlertsUnique ==
    \A i, j \in 1..Len(trip_alerts) :
        i # j => AlertKey(trip_alerts[i]) # AlertKey(trip_alerts[j])

\* C3: when a cycle failed while processing one trip, every other confirmed
\* trip was scanned in that cycle and its new alerts are persisted
C3_FailureIsolatedPerTrip ==
    (pc = "idle" /\ outcome = "failed" /\ failed_trip # 0) =>
        \A t \in ScannableTrips \ {failed_trip} :
            t \in scanned /\ RowsAdded(t) = found[t]

\* C7: at every point of a cycle, and after it stopped in any way, the new
\* alerts of a trip are persisted all together or not at all
C7_BatchAtomicPerTrip ==
    \A t \in TripIds : RowsAdded(t) = <<>> \/ RowsAdded(t) = found[t]

\* a cycle stopped by an exception or a cancellation while one trip had new
\* alerts pending, after another trip's batch of two alerts was committed
C7_Witness ==
    /\ pc = "idle"
    /\ outcome \in {"failed", "cancelled"}
    /\ \E t \in TripIds : found[t] # <<>> /\ RowsAdded(t) = <<>>
    /\ \E t \in TripIds : Len(found[t]) >= 2 /\ RowsAdded(t) = found[t]

NotifyFails ==
    /\ pc = "notify"
    /\ Len(emails') = Len(emails) + 1
    /\ emails'[Len(emails')].result \in {"failed", "raised"}

\* C8: a step in which the notification of a trip fails leaves the persisted
\* alerts as they are and moves the cycle on to the next trip
C8_NotifyFailureIsolated ==
    [][NotifyFails => /\ trip_alerts' = trip_alerts
                      /\ exc' = "none"
                      /\ pc' = "loop"
                      /\ tIdx' = tIdx + 1]_vars

\* the notification for trip 1 failed, its alerts are persisted, and the
\* cycle went on to scan trip 2 and persist its alerts
C8_Witness ==
    /\ \E i \in 1..Len(emails) :
          emails[i].trip_id = 1 /\ emails[i].result \in {"failed", "raised"}
    /\ RowsAdded(1) # <<>>
    /\ 2 \in scanned
    /\ RowsAdded(2) # <<>>

\* C9: scan_confirmed_trips lets no exception escape, and whenever a cycle
\* has ended its database session is closed
C9_EntryPointContainsFailures ==
    /\ propagated \notin ExceptionKinds
    /\ (pc \in {"return", "idle"} /\ session # "none") => session = "closed"

\* a cycle ran to its end and persisted alerts after an earlier cycle failed
C9_Witness ==
    /\ pc = "idle"
    /\ failed_before
    /\ outcome = "ok"
    /\ propagated = "none"
    /\ \E t \in TripIds : RowsAdded(t) # <<>>

\* ------------------------------------------------------------------------
\* Properties of the modification service (ModSpec)
\* ------------------------------------------------------------------------
\* the call that has just been served
Served == applied' = applied + 1

\* the hotel stay a hotel handler works on, when the trip has a confirmed hotel
\* booking whose check-in and check-out are dates
StayOf(bks) ==
    LET i == _find_booking(bks, "hotel")
    IN  IF i = 0 \/ ~IsDict(bks[i].details) THEN Null
        ELSE IF ~IsDict(bks[i].details.hotel) THEN Null
        ELSE IF bks[i].details.hotel.check_in.tag = "isodate"
                /\ bks[i].details.hotel.check_out.tag = "isodate"
        THEN [check_in |-> bks[i].details.hotel.check_in.day,
              check_out |-> bks[i].details.hotel.check_out.day]
        ELSE Null

\* the cabin of the first confirmed flight booking, a missing cabin counting
\* as ECONOMY; "none" without such a booking or without a cabin name
CabinOf(bks) ==
    LET i == _find_booking(bks, "flight")
    IN  IF i = 0 \/ ~IsDict(bks[i].details) THEN "none"
        ELSE IF ~IsDict(bks[i].details.flight) THEN "none"
        ELSE IF bks[i].details.flight.cabin = Missing THEN "ECONOMY"
        ELSE IF IsDict(bks[i].details.flight.cabin) THEN "none"
        ELSE IF bks[i].details.flight.cabin.tag = "name" THEN bks[i].details.flight.cabin.w
        ELSE "none"

\* the cabin a served call asks for, "none" if it is not a seat upgrade
RequestedCabin(c) ==
    IF c.fn = "_modify_seat_upgrade" THEN c.cabin
    ELSE IF c.fn = "apply_modification"
            /\ _parse_modification_request(c.request).type = "seat_upgrade"
    THEN _parse_modification_request(c.request).cabin
    ELSE "none"

\* C4: apply_modification never raises: whatever the request and the
\* bookings (none, none confirmed, missing or unparseable dates, missing or
\* null price, missing details) it returns, and a result that is not a
\* success has type "unknown" or "error" and null updated_details.
C4_NeverRaisesForDomainFailures ==
    call.fn = "apply_modification" =>
        /\ ~IsRaised(ret)
        /\ ~ret.returned.success =>
              /\ ret.returned.modification_type \in {"unknown", "error"}
              /\ ret.returned.updated_details = Null

\* C5: a request to shorten the hotel stay by n nights with
\* check_out - n <= check_in is answered with the InvalidDuration failure;
\* the bookings are left as they were and nothing is committed.
C5_ShortenRejectsNonPositiveStay ==
    [][ ( /\ Served
          /\ call'.fn = "apply_modification"
          /\ _parse_modification_request(call'.request).type = "hotel_shorten"
          /\ StayOf(bookings) # Null
          /\ StayOf(bookings).check_out - _parse_modification_request(call'.request).nights
                <= StayOf(bookings).check_in )
        => ( /\ ret' = Returned(_err([kind |-> "InvalidDuration"]))
             /\ bookings' = bookings
             /\ commits' = commits ) ]_vars

\* C6: a seat upgrade to the cabin the confirmed flight booking already has
\* (a missing cabin counting as ECONOMY) is answered with the
\* AlreadyAtTarget failure; the bookings are left as they were and nothing
\* is committed.
C6_SameCabinRejected ==
    [][ ( /\ Served
          /\ RequestedCabin(call') # "none"
          /\ CabinOf(bookings) = RequestedCabin(call') )
        => ( /\ ret' = Returned(_err([kind |-> "AlreadyAtTarget",
                                      cabin |-> RequestedCabin(call')]))
             /\ bookings' = bookings
             /\ commits' = commits ) ]_vars

\* an upgrade to ECONOMY of a flight that records no cabin was rejected, and
\* so was an upgrade to business class of a business-class flight
C6_Witness ==
    /\ ret # Pending
    /\ ~IsRaised(ret)
    /\ ret.returned.message.kind = "AlreadyAtTarget"
    /\ \/ /\ call = [fn |-> "_modify_seat_upgrade", cabin |-> "ECONOMY"]
          /\ bookings[_find_booking(bookings, "flight")].details.flight.cabin = Missing
       \/ /\ call = [fn |-> "apply_modification",
                     request |-> <<"upgrade", "to", "business", "class">>]
          /\ CabinOf(bookings) = "BUSINESS"
    /\ commits = 0

\* C11: with booking mock mode off, every apply_modification call returns a
\* result with success = false, leaves the details of every booking as they
\* were and commits nothing.
C11_LiveModeAlwaysFails ==
    [][ ( /\ Served
          /\ call'.fn = "apply_modification"
          /\ ~settings.booking_mock_mode )
        => ( /\ ~IsRaised(ret')
             /\ ~ret'.returned.success
             /\ bookings' = bookings
             /\ commits' = commits ) ]_vars

UnsupportedLive == Returned(_err([kind |-> "LiveSeatUpgradeUnsupported"]))

\* C12: with booking mock mode off, a seat upgrade asked for a trip with a
\* confirmed flight booking is answered with the UnsupportedLive failure,
\* whatever the current and the requested cabin are.
C12_LiveSeatUpgradeAlwaysUnsupported ==
    [][ ( /\ Served
          /\ ~settings.booking_mock_mode
          /\ RequestedCabin(call') # "none"
          /\ _find_booking(bookings, "flight") # 0 )
        => ret' = UnsupportedLive ]_vars

\* two mock calls for the same flight identity
SameFlightPair ==
    /\ call.fn \in {"check_flight_changes", "check_price_drops"}
    /\ ret # Pending
    /\ call.first.carrier = call.second.carrier
    /\ call.first.flight_number = call.second.flight_number

\* C13: two mock change detections, or two mock price-drop detections, for
\* the same carrier and flight number return the same activation decision
\* and, when active, the same alert_type and message.
C13_MockResultDependsOnIdentityOnly ==
    SameFlightPair =>
        /\ ~IsRaised(ret.first)
        /\ ~IsRaised(ret.second)
        /\ Len(ret.first.returned) = Len(ret.second.returned)
        /\ \A i \in 1..Len(ret.first.returned) :
              /\ ret.first.returned[i].alert_type = ret.second.returned[i].alert_type
              /\ ret.first.returned[i].message = ret.second.returned[i].message

\* a parser call that has returned
Parsed == call.fn = "_parse_modification_request" /\ ret # Pending

\* the patterns the phrases of the parsed request were written for
KindsOf(phrases) == {phrases[i].kind : i \in 1..Len(phrases)}

\* C14: the parser tests hotel-extend, hotel-shorten, cabin upgrade and room
\* upgrade in this order and the first that matches decides: a request with
\* an extend phrase is hotel_extend whatever else it holds, a request with a
\* cabin and a room keyword is seat_upgrade, and the result is unknown
\* exactly when the request holds no phrase of any pattern.
C14_FirstPatternWins ==
    Parsed =>
        LET k == KindsOf(call.phrases)
            t == ret.returned.type
        IN  /\ "extend" \in k => t = "hotel_extend"
            /\ ("extend" \notin k /\ "shorten" \in k) => t = "hotel_shorten"
            /\ ({"extend", "shorten"} \cap k = {} /\ "cabin" \in k) => t = "seat_upgrade"
            /\ ({"extend", "shorten", "cabin"} \cap k = {} /\ "room" \in k)
                  => t = "room_upgrade"
            /\ t = "unknown" <=> k \subseteq {"other"}

\* "upgrade to business class add 3 more nights" was parsed as an extension,
\* by three nights
C14_Witness ==
    /\ Parsed
    /\ RequestText(call.phrases)
          = <<"upgrade", "to", "business", "class", "add", "3", "more", "nights">>
    /\ ret.returned = [type |-> "hotel_extend", nights |-> 3]

\* the quantity of the phrase the hotel patterns match first: the leftmost
\* extend phrase, or the leftmost shorten phrase when there is no extend phrase
DecidingQuantity(phrases) ==
    LET kind == IF "extend" \in KindsOf(phrases) THEN "extend" ELSE "shorten"
        i == CHOOSE j \in 1..Len(phrases) :
                /\ phrases[j].kind = kind
                /\ \A h \in 1..(j - 1) : phrases[h].kind # kind
    IN  phrases[i].quantity

\* C15: every hotel_extend and hotel_shorten result has nights >= 1: a digit
\* string or a word of the table one..ten, a, an gives its value, a quantity
\* that is no number (or is 0) gives 1; _word_to_int itself returns the value
\* of a digit string or table word and None for any other word.
C15_NightsAtLeastOne ==
    /\ ( Parsed /\ ret.returned.type \in {"hotel_extend", "hotel_shorten"} )
          => LET q == DecidingQuantity(call.phrases)
             IN  /\ ret.returned.nights >= 1
                 /\ ret.returned.nights = (IF q >= 1 THEN q ELSE 1)
    /\ ( call.fn = "_word_to_int" /\ ret # Pending )
          => ret.returned = (IF call.quantity[2] >= 0 THEN Num(call.quantity[2]) ELSE Null)

\* "reduce hotel stay by 0 nights" was parsed as a shortening by one night
C15_Witness ==
    /\ Parsed
    /\ RequestText(call.phrases) = <<"reduce", "hotel", "stay", "by", "0", "nights">>
    /\ ret.returned = [type |-> "hotel_shorten", nights |-> 1]

\* a live price-drop call whose provider answered with offers that all carry
\* a numeric price (or none), for a booking with route and departure date
PricesCompared ==
    /\ call.fn = "_live_price_drop"
    /\ ret # Pending
    /\ IsDict(call.booking)
    /\ ~IsRaised(DepartDate(call.booking))
    /\ Truthy(Get(call.booking, "origin", Str(<<>>)))
    /\ Truthy(Get(call.booking, "destination", Str(<<>>)))
    /\ Truthy(DepartDate(call.booking))
    /\ call.env.token = "ok" /\ call.env.request = "ok" /\ call.env.status = 200
    /\ call.env.shape = "data"
    /\ \A i \in 1..Len(call.env.offers) : call.env.offers[i].tag \in {"num", "missing"}

\* the cheapest offer of the call, in cents
CheapestOffer ==
    LET prices == OfferPrices(call.env.offers, call.original_price_usd)
    IN  SeqMin([i \in 1..Len(prices) |-> prices[i].n])

\* C16: the live price-drop check returns a candidate whenever the cheapest
\* offer is at most 0.92 times the original price, the exact 8% boundary
\* included, and nothing when the cheapest offer is less than 8% below.
C16_EmitsFromEightPercent ==
    PricesCompared =>
        ( Len(ret.returned) = 1 <=> CheapestOffer * 100 <= call.original_price_usd * 92 )

\* the status of the trip a booking row belongs to
TripStatusOf(b) ==
    LET i == CHOOSE j \in 1..Len(trips) : trips[j].id = b.trip_id
    IN  trips[i].status

\* C17: in a scan cycle that got past its trip query, change detection was
\* called on every confirmed flight booking of every confirmed trip (with an
\* owner), and on no booking of another type or status and on no booking of a
\* trip of another status.
C17_DetectionCoversConfirmedFlights ==
    (pc = "idle" /\ (outcome = "ok" \/ (outcome = "failed" /\ failed_trip # 0))) =>
        /\ \A i \in 1..Len(bookings) :
              ( /\ bookings[i].type = "flight"
                /\ bookings[i].status = "confirmed"
                /\ bookings[i].trip_id \in ScannableTrips )
              => bookings[i] \in checked
        /\ \A b \in checked :
              /\ b.type = "flight"
              /\ b.status = "confirmed"
              /\ TripStatusOf(b) = "confirmed"

\* the notifications issued for trip t in the running (or last) cycle
NotificationsOf(t) == {i \in 1..Len(emails) : emails[i].trip_id = t}

\* alert_type and message of each row, in order
TypeAndMessage(rows) ==
    [i \in 1..Len(rows) |-> [alert_type |-> rows[i].alert_type, message |-> rows[i].message]]

\* C18: when a scan cycle that was not cancelled has ended, every trip has
\* had a notification issued to its owner if and only if at least one new
\* alert was persisted for it in that cycle; there is at most one
\* notification per trip and cycle, each issued for a committed batch and
\* listing exactly the alerts newly persisted for the trip in the cycle.
C18_NotifiedIffPersisted ==
    (pc = "idle" /\ outcome \in {"ok", "failed"}) =>
        /\ \A t \in TripIds : RowsAdded(t) # <<>> <=> NotificationsOf(t) # {}
        /\ \A t \in TripIds : Cardinality(NotificationsOf(t)) <= 1
        /\ \A i \in 1..Len(emails) :
              /\ RowsAdded(emails[i].trip_id) # <<>>
              /\ emails[i].alerts = TypeAndMessage(RowsAdded(emails[i].trip_id))

\* C19: a step of a scan cycle only inserts alert rows, created unread: the
\* rows already persisted stay as they are, in place, and no trip and no
\* booking changes.
C19_ScanOnlyInsertsAlerts ==
    [][ /\ Len(trip_alerts') >= Len(trip_alerts)
        /\ SubSeq(trip_alerts', 1, Len(trip_alerts)) = trip_alerts
        /\ \A i \in (Len(trip_alerts) + 1)..Len(trip_alerts') : ~trip_alerts'[i].is_read
        /\ trips' = trips
        /\ bookings' = bookings ]_vars

\* a cycle inserted alert rows while rows of an earlier cycle were persisted
C19_Witness ==
    /\ alerts_before >= 1
    /\ Len(trip_alerts) > alerts_before
    /\ cycle >= 1
    /\ \A i \in 1..Len(trip_alerts) : ~trip_alerts[i].is_read

\* C24: alerts are passed to the notification only by the step that follows
\* the commit of a trip's batch; that step passes exactly the rows persisted
\* for the trip in the running cycle, the trip has had no notification in
\* the cycle before, and no row persisted by an earlier cycle is listed.
\* Hence a persisted alert is passed at most once, in the cycle that
\* persisted it, whether or not that cycle or its notification failed.
C24_NotifiedOnceByPersistingCycle ==
    [][ (emails' # emails /\ emails' # <<>>) =>
          /\ Len(emails') = Len(emails) + 1
          /\ SubSeq(emails', 1, Len(emails)) = emails
          /\ trip_alerts' = trip_alerts
          /\ LET e == emails'[Len(emails')]
             IN  /\ RowsAdded(e.trip_id) # <<>>
                 /\ e.alerts = TypeAndMessage(RowsAdded(e.trip_id))
                 /\ \A i \in 1..Len(emails) : emails[i].trip_id # e.trip_id
                 /\ \A p \in 1..alerts_before :
                       trip_alerts[p].trip_id = e.trip_id =>
                          \A i \in 1..Len(e.alerts) :
                             e.alerts[i] # [alert_type |-> trip_alerts[p].alert_type,
                                            message |-> trip_alerts[p].message]
      ]_vars

\* a later cycle persisted a new alert for a trip that has an alert of an
\* earlier cycle, and its notification lists the new alert only
C24_Witness ==
    /\ cycle >= 1
    /\ Len(emails) = 1
    /\ Len(emails[1].alerts) = 1
    /\ \E p \in 1..alerts_before : trip_alerts[p].trip_id = emails[1].trip_id

\* the booking stores an original price that is a number greater than 0
HasPositivePrice(b) ==
    /\ IsDict(b.details)
    /\ IsDict(b.details.flight)
    /\ b.details.flight.price_usd.tag = "num"
    /\ b.details.flight.price_usd.n > 0

\* C27: price-drop detection is called only on a booking that stores a
\* price greater than 0 and only after change detection was called on that
\* booking in the cycle; and when a cycle that got past its trip query ends,
\* it has been called on every confirmed flight booking of a confirmed trip
\* (with an owner) that stores a price greater than 0.
C27_PriceCheckIffPositivePrice ==
    [][ /\ \A b \in priced' \ priced : b \in checked /\ HasPositivePrice(b)
        /\ ( /\ pc # "idle"
             /\ pc' = "idle"
             /\ outcome' = "ok" \/ (outcome' = "failed" /\ failed_trip' # 0) )
           => \A i \in 1..Len(bookings) :
                 ( /\ bookings[i].type = "flight"
                   /\ bookings[i].status = "confirmed"
                   /\ bookings[i].trip_id \in ScannableTrips
                   /\ HasPositivePrice(bookings[i]) )
                 => bookings[i] \in priced' ]_vars

\* C20: while scans overlap, each with its own session and each processing
\* trips that hold at most one confirmed flight booking, no two persisted
\* alert rows have the same (trip_id, alert_type, message).
C20_AlertsUniqueUnderOverlap ==
    \A i \in 1..Len(trip_alerts) : \A j \in (i + 1)..Len(trip_alerts) :
        AlertKey(trip_alerts[i]) # AlertKey(trip_alerts[j])

\* a confirmed hotel booking whose check-in and check-out are dates, the
\* check-in before the check-out
OrderedStay(b) ==
    /\ b.type = "hotel"
    /\ b.status = "confirmed"
    /\ IsDict(b.details)
    /\ IsDict(b.details.hotel)
    /\ b.details.hotel.check_in.tag = "isodate"
    /\ b.details.hotel.check_out.tag = "isodate"
    /\ b.details.hotel.check_in.day < b.details.hotel.check_out.day

\* C22: a call of apply_modification, whatever its intent and the mode, leaves
\* every confirmed hotel booking that had check_in < check_out with
\* check_in < check_out and with the check_in it had; so this holds after any
\* sequence of calls.
C22_HotelDatesStayOrdered ==
    [][ (Served /\ call'.fn = "apply_modification") =>
          \A i \in 1..Len(bookings) :
              OrderedStay(bookings[i]) =>
                  /\ OrderedStay(bookings'[i])
                  /\ bookings'[i].details.hotel.check_in = bookings[i].details.hotel.check_in
      ]_vars

\* a two-night stay was shortened by one night and a night is left
C22_Witness ==
    /\ call.fn = "apply_modification"
    /\ call.request = <<"reduce", "hotel", "stay", "by", "1", "night">>
    /\ ~IsRaised(ret)
    /\ ret.returned.success
    /\ applied = 2
    /\ \E i \in 1..Len(bookings) :
          /\ OrderedStay(bookings[i])
          /\ bookings[i].details.hotel.check_out.day
                = bookings[i].details.hotel.check_in.day + 1

\* position of a cabin in the order ECONOMY < PREMIUM_ECONOMY < BUSINESS < FIRST
CabinRank(cabin) ==
    CASE cabin = "ECONOMY" -> 0
      [] cabin = "PREMIUM_ECONOMY" -> 1
      [] cabin = "BUSINESS" -> 2
      [] cabin = "FIRST" -> 3
      [] OTHER -> -1

\* the served call was a seat upgrade in mock mode and reported success
SeatUpgradeSucceeded ==
    /\ Served
    /\ settings.booking_mock_mode
    /\ RequestedCabin(call') # "none"
    /\ ~IsRaised(ret')
    /\ ret'.returned.success

\* C23: in mock mode a seat upgrade that reports success leaves the flight in
\* a cabin strictly higher than the cabin it had, and the upgrade cost it
\* reports is not negative.
C23_SeatUpgradeRaisesCabin ==
    [][ SeatUpgradeSucceeded =>
          /\ CabinRank(CabinOf(bookings')) > CabinRank(CabinOf(bookings))
          /\ ret'.returned.message.upgrade_cost >= 0 ]_vars

\* the hotel of the first confirmed hotel booking when its check_out is a
\* date, Null otherwise
ExtendableHotel(bks) ==
    LET i == _find_booking(bks, "hotel")
    IN  IF i = 0 \/ ~IsDict(bks[i].details) THEN Null
        ELSE IF ~IsDict(bks[i].details.hotel) THEN Null
        ELSE IF bks[i].details.hotel.check_out.tag = "isodate" THEN bks[i].details.hotel
        ELSE Null

\* price_per_night of a hotel in cents, 0 when it is not known
PriceOrZero(hotel) ==
    IF hotel.price_per_night_usd.tag = "num" THEN hotel.price_per_night_usd.n ELSE 0

\* the nights of the served call when it is a hotel extension, 0 otherwise
ExtendBy(c) ==
    IF c.fn = "apply_modification"
       /\ _parse_modification_request(c.request).type = "hotel_extend"
    THEN _parse_modification_request(c.request).nights
    ELSE 0

\* C25: in mock mode an extension by n nights of a trip with a confirmed
\* hotel booking whose check_out is a date reports success, persists that
\* booking with check_out + n days and nothing else changed, and reports the
\* cost n x price_per_night, 0 when the price is not known.
C25_MockExtendPersistsAndPrices ==
    [][ ( /\ Served
          /\ settings.booking_mock_mode
          /\ ExtendBy(call') > 0
          /\ ExtendableHotel(bookings) # Null )
        => LET i == _find_booking(bookings, "hotel")
               hotel == ExtendableHotel(bookings)
               n == ExtendBy(call')
           IN  /\ ~IsRaised(ret')
               /\ ret'.returned.success
               /\ ret'.returned.message.extra_cost = n * PriceOrZero(hotel)
               /\ bookings' = [bookings EXCEPT ![i].details.hotel.check_out =
                                                  IsoDate(hotel.check_out.day + n)]
               /\ commits' = commits + 1 ]_vars

\* the premium of a cabin in cents: ECONOMY 0, PREMIUM_ECONOMY 350, BUSINESS
\* 1200, FIRST 2500 dollars, any other cabin 0
PremiumOf(cabin) ==
    CASE cabin = "PREMIUM_ECONOMY" -> 35000
      [] cabin = "BUSINESS" -> 120000
      [] cabin = "FIRST" -> 250000
      [] OTHER -> 0

\* C26: in mock mode a seat upgrade that reports success stores the requested
\* cabin in the flight of the confirmed flight booking, changes no other
\* field of that flight and no other booking, returns the updated flight and
\* reports the cost premium(requested) - premium(current), the cabin the
\* flight had counting as ECONOMY when none is recorded.
C26_MockSeatUpgradeSetsCabinAndDelta ==
    [][ SeatUpgradeSucceeded =>
          LET i == _find_booking(bookings, "flight")
              target == RequestedCabin(call')
          IN  /\ bookings' = [bookings EXCEPT ![i].details.flight.cabin = Name(target)]
              /\ ret'.returned.updated_details = bookings'[i].details.flight
              /\ ret'.returned.message.upgrade_cost
                    = PremiumOf(target) - PremiumOf(CabinOf(bookings))
              /\ commits' = commits + 1 ]_vars

\* a flight in a fare class outside the table was upgraded to first class at
\* the full premium of first class
C26_Witness ==
    /\ settings.booking_mock_mode
    /\ call.fn = "apply_modification"
    /\ call.request = <<"first", "class">>
    /\ ~IsRaised(ret)
    /\ ret.returned.success
    /\ ret.returned.message.from = "Basic Economy"
    /\ ret.returned.message.upgrade_cost = 250000
    /\ CabinOf(bookings) = "FIRST"

\* the nights of the served call when it is a hotel shortening, 0 otherwise
ShortenBy(c) ==
    IF c.fn = "apply_modification"
       /\ parsed_request(c.request).type = "hotel_shorten"
    THEN parsed_request(c.request).nights
    ELSE 0

\* the call served last was a hotel extension that reported success
ExtendedJustBefore ==
    /\ applied > 0
    /\ ExtendBy(call) > 0
    /\ ~IsRaised(ret)
    /\ ret.returned.success

\* C28: in mock mode, on a confirmed hotel booking with check_in < check_out,
\* an extension by n nights reports success and changes the check_out only,
\* to n days later; a shortening by n nights served right after it on the
\* stay that was ordered before the extension reports success and changes the
\* check_out only, back to n days earlier: the two requests together restore
\* the booking.
C28_ExtendThenShortenRestores ==
    [][ ( /\ Served
          /\ settings.booking_mock_mode
          /\ StayOf(bookings) # Null )
        => LET i == _find_booking(bookings, "hotel")
               stay == StayOf(bookings)
               n == ExtendBy(call')
               m == ShortenBy(call')
           IN  /\ (n > 0 /\ stay.check_in < stay.check_out)
                     => /\ ~IsRaised(ret')
                        /\ ret'.returned.success
                        /\ bookings' = [bookings EXCEPT ![i].details.hotel.check_out =
                                                           IsoDate(stay.check_out + n)]
               /\ (m > 0 /\ ExtendedJustBefore /\ ExtendBy(call) = m
                          /\ stay.check_in < stay.check_out - m)
                     => /\ ~IsRaised(ret')
                        /\ ret'.returned.success
                        /\ bookings' = [bookings EXCEPT ![i].details.hotel.check_out =
                                                           IsoDate(stay.check_out - m)]
      ]_vars

\* ------------------------------------------------------------------------
\* Properties of modification requests in flight (InFlightSpec)
\* ------------------------------------------------------------------------
\* the nights a handler's request extends the stay by, 0 for another intent
ExtendNights(w) ==
    LET parsed == _parse_modification_request(handlers[w].request)
    IN  IF parsed.type = "hotel_extend" THEN parsed.nights ELSE 0

RECURSIVE SumExtendNights(_)
SumExtendNights(ws) ==
    IF ws = {} THEN 0
    ELSE LET w == CHOOSE x \in ws : TRUE
         IN  ExtendNights(w) + SumExtendNights(ws \ {w})

\* every request in flight was an extension, was served and reported success
AllExtended ==
    \A w \in Workers :
        /\ handlers[w].pc = "done"
        /\ ExtendNights(w) > 0
        /\ ~IsRaised(handlers[w].ret)
        /\ handlers[w].ret.returned.success

\* C21: when the requests in flight are all hotel extensions of the same
\* confirmed hotel booking and all report success, the stored check_out is
\* the check_out stored before them plus the nights of every one of them,
\* however loading and applying interleave.
C21_NoLostUpdate ==
    AllExtended =>
        LET i == _find_booking(bookings, "hotel")
        IN  bookings[i].details.hotel.check_out.day
              = call.bookings[i].details.hotel.check_out.day + SumExtendNights(Workers)

\* ------------------------------------------------------------------------
\* Properties of the rule-based trip parser (TripParseSpec)
\* ------------------------------------------------------------------------
\* the parser returned a trip
TripParsed ==
    /\ call.fn = "_parse_with_rules"
    /\ ret # Pending
    /\ ~IsRaised(ret)

\* the duration the request states, in days: that of its first phrase in
\* days when it has one, else seven times that of its first phrase in
\* weeks, 0 when it states no duration
StatedDuration(phrases) ==
    LET days == {i \in 1..Len(phrases) : phrases[i].kind = "days"}
        weeks == {i \in 1..Len(phrases) : phrases[i].kind = "weeks"}
    IN  IF days # {} THEN phrases[CHOOSE i \in days : \A j \in days : i <= j].quantity
        ELSE IF weeks # {}
        THEN 7 * phrases[CHOOSE i \in weeks : \A j \in weeks : i <= j].quantity
        ELSE 0

\* C29: a trip the parser returns has a return_date exactly when it has a
\* depart_date and the request states a duration that is not zero, days
\* before weeks and a week being seven days; the return_date is then the
\* depart_date plus that many days and is not before the depart_date.
C29_ReturnDateIsDepartPlusDuration ==
    TripParsed =>
        LET trip == ret.returned
            duration == StatedDuration(call.phrases)
        IN  /\ (trip.return_date # Null) <=> (trip.depart_date # Null /\ duration # 0)
            /\ trip.return_date # Null =>
                  /\ fromisoformat(trip.return_date.chars)
                        = fromisoformat(trip.depart_date.chars) + duration
                  /\ fromisoformat(trip.return_date.chars)
                        >= fromisoformat(trip.depart_date.chars)

\* a request with a month, a duration in weeks and then one in days returned
\* the first Friday of the month and the day ten days after it
C29_Witness ==
    /\ TripParsed
    /\ Len(call.phrases) = 3
    /\ call.phrases[1].kind = "month"
    /\ call.phrases[2].kind = "weeks"
    /\ call.phrases[2].quantity = 2
    /\ call.phrases[3].kind = "days"
    /\ call.phrases[3].quantity = 10
    /\ ret.returned.depart_date # Null
    /\ Weekday(fromisoformat(ret.returned.depart_date.chars)) = 4
    /\ ret.returned.return_date # Null
    /\ fromisoformat(ret.returned.return_date.chars)
          = fromisoformat(ret.returned.depart_date.chars) + 10

\* C30: the depart_date of a trip the parser returns is never earlier than
\* the day of the call, for a request that names a month only and for a
\* request that names a month and a day.
C30_DepartDateNotBeforeToday ==
    (TripParsed /\ ret.returned.depart_date # Null) =>
        fromisoformat(ret.returned.depart_date.chars) >= call.today
====
